---- MODULE Spec2Model ----
(***************************************************************************)
(* Deployment pipeline of the LLM code deployment service:                 *)
(*   - GitHubManager (github_integration.py): repository creation, file    *)
(*     upload and GitHub Pages activation against the provider,            *)
(*   - DeploymentProcessor (deployment_processor.py): the orchestrator.    *)
(* The provider (GitHub), the database, the code generator, the callback   *)
(* endpoint and the browser are the environment: every call into them      *)
(* answers nondeterministically with one of the outcomes the code          *)
(* distinguishes.                                                          *)
(***************************************************************************)
EXTENDS Integers, Sequences, FiniteSets, TLC

VARIABLES
    repos,      \* provider: sequence of the repositories of the account
    files,      \* provider: <<repo, path>> -> [content, sha]
    pages,      \* provider: repositories with Pages enabled
    commits,    \* provider: number of commits made so far (revision ids)
    username,   \* GitHubManager._username ("" is None)
    gpc,        \* position inside the running GitHubManager method
    g,          \* locals of the running GitHubManager method
    gret,       \* what the last GitHubManager method returned or raised
    http,       \* provider requests sent since the caller's last reset
    drv,        \* a direct caller of GitHubManager: calls made, URLs got
    pc,         \* position of process_deployment
    request,    \* request_data: the keys present, the task, the checks
    loc,        \* locals of process_deployment and _perform_evaluation
    calls,      \* calls of process_deployment into its collaborators
    outcome,    \* the dictionary process_deployment returned
    db,         \* DatabaseManager: rows of tasks, repos and results
    notif,      \* _notify_evaluation_endpoint: attempt, number of posts,
                \* last response, whether all responses were the same,
                \* delays slept
    browser,    \* AppEvaluator.browser is set
    evaluator,  \* the running AppEvaluator.evaluate_app call
    poll        \* the running availability poll

orch_but_browser == <<pc, request, loc, calls, outcome, db, notif>>
orch == <<orch_but_browser, browser>>
caller == <<drv, orch, evaluator, poll>>
vars == <<repos, files, pages, commits, username, gpc, g, gret, http, drv,
          pc, request, loc, calls, outcome, db, notif, browser, evaluator, poll>>

(***************************************************************************)
(* Bounds of the model.                                                    *)
(***************************************************************************)
MaxCalls == 3
MaxFiles == 2
MaxCommits == 10
MaxDbFaults == 1

(***************************************************************************)
(* Values.                                                                 *)
(***************************************************************************)
Login == "octo"
Tasks == {"task-a"}
Brief == "calculator app"
Exc == 0      \* no response: _make_api_request raised

\* hashlib.md5(brief.encode()).hexdigest()[:8], kept symbolic
brief_hash(brief) == <<"md5_8", brief>>

\* ''.join(c for c in task if c.isalnum() or c in '-_'): the task ids of
\* Tasks hold allowed characters only
clean_task(task) == task

generate_repo_name(task, brief, timestamp) ==
    [task |-> clean_task(task), hash |-> brief_hash(brief), ts |-> timestamp]

RepoNames == {generate_repo_name(t, Brief, 0) : t \in Tasks}

RepoUrl(owner, name) == [kind |-> "html_url", owner |-> owner, name |-> name]
PagesUrl(owner, name) == [kind |-> "pages_url", owner |-> owner, name |-> name]

Range(s) == {s[i] : i \in 1..Len(s)}
RepoSet == Range(repos)
Count(name) == Cardinality({i \in 1..Len(repos) : repos[i] = name})

NoRet == [kind |-> "none"]
Value(v) == [kind |-> "value", value |-> v]
Raised(msg) == [kind |-> "raise", error |-> msg]

\* the function that sends a request: get_username calls requests.get
\* itself (line 41), every other request is made by _make_api_request
sender(req) ==
    IF req = "GET /user" THEN "requests.get" ELSE "_make_api_request"

\* the timeout argument of the call, in seconds, 0 when it has none
timeout_of(by) == IF by = "_make_api_request" THEN 30 ELSE 0

Req(req, name, path, sha, status) ==
    [req |-> req, repo |-> name, path |-> path, sha |-> sha, status |-> status,
     via |-> sender(req), timeout |-> timeout_of(sender(req))]

PutFile(name, path, content) ==
    [k \in DOMAIN files \cup {<<name, path>>} |->
        IF k = <<name, path>> THEN [content |-> content, sha |-> commits + 1]
        ELSE files[k]]

(***************************************************************************)
(* The provider's answers.  A status set holds the answer the provider's   *)
(* state calls for, a server error (500) where the caller treats it        *)
(* differently from that answer, and Exc when the request wrapper raised   *)
(* after its retries.                                                      *)
(***************************************************************************)
UserStatuses == {200, 500}
CreateStatuses(name) ==
    (IF name \in RepoSet THEN {422} ELSE {201, 422}) \cup {500, Exc}
RepoGetStatuses(name) ==
    (IF name \in RepoSet THEN {200} ELSE {404}) \cup {500, Exc}
RefGetStatuses(name) ==
    (IF name \in RepoSet THEN {200} ELSE {404}) \cup {Exc}
FileGetStatuses(name, path) ==
    (IF <<name, path>> \in DOMAIN files THEN {200, 500} ELSE {404}) \cup {Exc}
FilePutStatuses(name, path, sha) ==
    (IF name \notin RepoSet THEN {404}
     ELSE IF <<name, path>> \in DOMAIN files
          THEN (IF sha = 0 THEN {422}
                ELSE IF sha = files[<<name, path>>].sha THEN {200} ELSE {409})
          ELSE (IF sha = 0 THEN {201} ELSE {422})) \cup {500, Exc}
PagesPostStatuses(name) ==
    (IF name \notin RepoSet THEN {404}
     ELSE IF name \in pages THEN {409} ELSE {201}) \cup {500, Exc}
PagesGetStatuses(name) ==
    (IF name \in pages THEN {200} ELSE {404}) \cup {500, Exc}

(***************************************************************************)
(* GitHubManager.get_username: the cached name, or one GET /user that      *)
(* fills the cache on 200 and raises otherwise.                            *)
(***************************************************************************)
get_username(st) ==
    IF username # "" THEN [ok |-> TRUE, name |-> username, log |-> <<>>]
    ELSE IF st = 200
         THEN [ok |-> TRUE, name |-> Login,
               log |-> <<Req("GET /user", g.name, "", 0, st)>>]
         ELSE [ok |-> FALSE, name |-> "",
               log |-> <<Req("GET /user", g.name, "", 0, st)>>]

\* entry of a GitHubManager method
Enter(op, name, fs) ==
    /\ gpc = "idle"
    /\ gpc' = op
    /\ g' = [op |-> op, name |-> name, fs |-> fs, i |-> 1,
             latest_sha |-> 0, file_sha |-> 0, faulted |-> FALSE,
             attached |-> 0]
    /\ gret' = NoRet

\* g.attached is the status code an exception's message carries
\* (f'...: {response.status_code} - {response.text}'), 0 when it carries none
Return(v) == gpc' = "idle" /\ gret' = Value(v)
Raise(msg) == gpc' = "idle" /\ gret' = Raised(msg)
Faulty(st) == st \in {500, Exc}

(***************************************************************************)
(* GitHubManager.create_repository                                         *)
(***************************************************************************)
\* create_repository without the 422 branch: a name conflict is an error
create_repository_on_conflict_raises(status) ==
    CASE status = 201 -> "return"
      [] status = Exc -> "raise_api"
      [] OTHER -> "raise"

\* what create_repository does with the status of POST /user/repos
create_repository_on(status) ==
    CASE status = 201 -> "return"
      [] status = 422 -> "lookup"
      [] status = Exc -> "raise_api"
      [] OTHER -> "raise"

CreatePost ==
    /\ gpc = "create_repository"
    /\ \E st \in CreateStatuses(g.name) :
        /\ http' = Append(http, Req("POST /user/repos", g.name, "", 0, st))
        /\ g' = [g EXCEPT !.faulted = @ \/ Faulty(st),
                          !.attached = IF create_repository_on(st) = "raise"
                                       THEN st ELSE @]
        /\ IF st = 201
           THEN /\ commits < MaxCommits
                /\ repos' = Append(repos, g.name)
                /\ files' = PutFile(g.name, "README.md", "auto_init")
                /\ commits' = commits + 1
           ELSE UNCHANGED <<repos, files, commits>>
        /\ CASE create_repository_on(st) = "return" ->
                    Return(RepoUrl(Login, g.name))
             [] create_repository_on(st) = "lookup" ->
                    gpc' = "create_lookup" /\ UNCHANGED gret
             [] create_repository_on(st) = "raise_api" ->
                    Raise("API request failed after 3 attempts")
             [] OTHER -> Raise("Failed to create repository")
    /\ UNCHANGED <<pages, username, caller>>

\* _get_repository: the repository's data on 200, None (<<>>) otherwise
get_repository(status, name) ==
    IF status = 200 THEN <<RepoUrl(Login, name)>> ELSE <<>>

CreateLookup ==
    /\ gpc = "create_lookup"
    /\ \E ust \in UserStatuses, st \in RepoGetStatuses(g.name) :
        LET u == get_username(ust) IN
        IF ~u.ok
        THEN /\ http' = http \o u.log
             /\ g' = [g EXCEPT !.faulted = TRUE]
             /\ Raise("Failed to get username")
             /\ UNCHANGED username
        ELSE /\ http' = (http \o u.log)
                        \o <<Req("GET /repos", g.name, "", 0, st)>>
             /\ g' = [g EXCEPT !.faulted = @ \/ Faulty(st)]
             /\ username' = u.name
             /\ IF st = Exc
                THEN Raise("API request failed after 3 attempts")
                ELSE IF get_repository(st, g.name) # <<>>
                     THEN Return(get_repository(st, g.name)[1])
                     ELSE Raise("Repository creation failed")
    /\ UNCHANGED <<repos, files, pages, commits, caller>>

(***************************************************************************)
(* GitHubManager.upload_files                                              *)
(***************************************************************************)
UploadUser ==
    /\ gpc = "upload_files"
    /\ \E ust \in UserStatuses :
        LET u == get_username(ust) IN
        /\ http' = http \o u.log
        /\ IF u.ok
           THEN /\ username' = u.name
                /\ gpc' = "upload_ref"
                /\ UNCHANGED <<g, gret>>
           ELSE /\ g' = [g EXCEPT !.faulted = TRUE]
                /\ Raise("Failed to get username")
                /\ UNCHANGED username
    /\ UNCHANGED <<repos, files, pages, commits, caller>>

\* the probe of the branch head: its answer is printed, its failure swallowed
UploadRef ==
    /\ gpc = "upload_ref"
    /\ \E st \in RefGetStatuses(g.name) :
        http' = Append(http, Req("GET /git/refs", g.name, "", 0, st))
    /\ IF Len(g.fs) = 0
       THEN Return(g.latest_sha)
       ELSE gpc' = "upload_probe" /\ UNCHANGED gret
    /\ UNCHANGED <<repos, files, pages, commits, username, g, caller>>

\* _get_file_sha: the file's sha on 200, None (0) otherwise
get_file_sha(status, sha) == IF status = 200 THEN sha ELSE 0

\* file_data that never carries the 'sha' key
file_data_sha_never(file_sha) == 0

\* the 'sha' key of file_data: present iff file_sha is set (0: no key)
file_data_sha(file_sha) == IF file_sha # 0 THEN file_sha ELSE 0

UploadProbe ==
    /\ gpc = "upload_probe"
    /\ LET path == g.fs[g.i][1] IN
       \E st \in FileGetStatuses(g.name, path) :
        /\ http' = Append(http, Req("GET /contents", g.name, path, 0, st))
        /\ IF st = Exc
           THEN /\ g' = [g EXCEPT !.faulted = TRUE]
                /\ Raise("API request failed after 3 attempts")
           ELSE /\ g' = [g EXCEPT
                     !.file_sha = get_file_sha(st,
                         IF st = 200 THEN files[<<g.name, path>>].sha ELSE 0),
                     !.faulted = @ \/ Faulty(st)]
                /\ gpc' = "upload_put"
                /\ UNCHANGED gret
    /\ UNCHANGED <<repos, files, pages, commits, username, caller>>

\* latest_sha that keeps the commit of the first file written
latest_sha_of_first(latest_sha, commit_sha) ==
    IF latest_sha = 0 THEN commit_sha ELSE latest_sha

\* line 163: latest_sha = result['commit']['sha']
latest_sha_after(latest_sha, commit_sha) == commit_sha

UploadPut ==
    /\ gpc = "upload_put"
    /\ LET path == g.fs[g.i][1]
           content == g.fs[g.i][2]
           sha == file_data_sha(g.file_sha) IN
       \E st \in FilePutStatuses(g.name, path, sha) :
        /\ http' = Append(http, Req("PUT /contents", g.name, path, sha, st))
        /\ IF st \in {200, 201}
           THEN /\ commits < MaxCommits
                /\ files' = PutFile(g.name, path, content)
                /\ commits' = commits + 1
                /\ g' = [g EXCEPT
                     !.latest_sha = latest_sha_after(@, commits + 1),
                     !.i = @ + 1]
                /\ IF g.i = Len(g.fs)
                   THEN Return(latest_sha_after(g.latest_sha, commits + 1))
                   ELSE gpc' = "upload_probe" /\ UNCHANGED gret
           ELSE /\ g' = [g EXCEPT !.faulted = @ \/ Faulty(st),
                                 !.attached = IF st = Exc THEN @ ELSE st]
                /\ IF st = Exc
                   THEN Raise("API request failed after 3 attempts")
                   ELSE Raise("Failed to upload")
                /\ UNCHANGED <<files, commits>>
    /\ UNCHANGED <<repos, pages, username, caller>>

(***************************************************************************)
(* GitHubManager.enable_pages                                              *)
(***************************************************************************)
\* enable_pages that treats 'already enabled' like any other refusal
enable_pages_on_conflict_get(status) ==
    CASE status = 201 -> "reported"
      [] status = Exc -> "raise_api"
      [] OTHER -> "get"

\* what enable_pages does with the status of POST /repos/{u}/{repo}/pages:
\* returns the html_url of the response (216-220), returns the URL built
\* from username and repo_name (221-226), or asks for the existing site
enable_pages_on(status) ==
    CASE status = 201 -> "reported"
      [] status = 409 -> "constructed"
      [] status = Exc -> "raise_api"
      [] OTHER -> "get"

PagesPost ==
    /\ gpc = "enable_pages"
    /\ \E ust \in UserStatuses, st \in PagesPostStatuses(g.name) :
        LET u == get_username(ust) IN
        IF ~u.ok
        THEN /\ http' = http \o u.log
             /\ g' = [g EXCEPT !.faulted = TRUE]
             /\ Raise("Failed to get username")
             /\ UNCHANGED <<username, pages>>
        ELSE /\ http' = (http \o u.log)
                        \o <<Req("POST /pages", g.name, "", 0, st)>>
             /\ g' = [g EXCEPT !.faulted = @ \/ Faulty(st)]
             /\ username' = u.name
             /\ pages' = IF st = 201 THEN pages \cup {g.name} ELSE pages
             /\ CASE enable_pages_on(st) = "reported" ->
                        Return(PagesUrl(Login, g.name))
                  [] enable_pages_on(st) = "constructed" ->
                        Return(PagesUrl(u.name, g.name))
                  [] enable_pages_on(st) = "raise_api" ->
                        Raise("API request failed after 3 attempts")
                  [] OTHER -> gpc' = "pages_get" /\ UNCHANGED gret
    /\ UNCHANGED <<repos, files, commits, caller>>

\* an error message of enable_pages that reports the GET's status
pages_error_status_of_get(post_status, get_status) == get_status

\* line 235: the message is built from response (the POST), not from
\* get_response
pages_error_status(post_status, get_status) == post_status

PagesGet ==
    /\ gpc = "pages_get"
    /\ \E st \in PagesGetStatuses(g.name) :
        /\ http' = Append(http, Req("GET /pages", g.name, "", 0, st))
        /\ g' = [g EXCEPT
                !.faulted = @ \/ Faulty(st),
                !.attached = IF st \notin {200, Exc}
                             THEN pages_error_status(http[Len(http)].status, st)
                             ELSE @]
        /\ CASE st = 200 -> Return(PagesUrl(Login, g.name))
             [] st = Exc -> Raise("API request failed after 3 attempts")
             [] OTHER -> Raise("Failed to enable GitHub Pages")
    /\ UNCHANGED <<repos, files, pages, commits, username, caller>>

Publisher ==
    \/ CreatePost \/ CreateLookup
    \/ UploadUser \/ UploadRef \/ UploadProbe \/ UploadPut
    \/ PagesPost \/ PagesGet

(***************************************************************************)
(* DeploymentProcessor.process_deployment                                  *)
(***************************************************************************)
\* the keys read with request_data[...], in the order they are read
RequiredFields ==
    <<"email", "task", "round", "nonce", "brief", "evaluation_url">>

\* code that reads 'nonce' with .get(): its absence goes unnoticed
missing_field_nonce_optional(present) ==
    IF \A k \in 1..Len(RequiredFields) :
            RequiredFields[k] \in present \/ RequiredFields[k] = "nonce"
    THEN ""
    ELSE RequiredFields[
            CHOOSE k \in 1..Len(RequiredFields) :
                /\ RequiredFields[k] \notin present
                /\ RequiredFields[k] # "nonce"
                /\ \A j \in 1..(k-1) :
                    RequiredFields[j] \in present \/ RequiredFields[j] = "nonce"]

\* the key of the KeyError raised by the reads of lines 43-49 ("": none)
missing_field(present) ==
    IF \A k \in 1..Len(RequiredFields) : RequiredFields[k] \in present
    THEN ""
    ELSE RequiredFields[
            CHOOSE k \in 1..Len(RequiredFields) :
                /\ RequiredFields[k] \notin present
                /\ \A j \in 1..(k-1) : RequiredFields[j] \in present]

\* the steps of the try block in program order
next_step_pages_first(step) ==
    CASE step = "store_task" -> "generate"
      [] step = "generate" -> "create"
      [] step = "create" -> "enable"
      [] step = "enable" -> "upload"
      [] step = "upload" -> "store_repo"
      [] step = "store_repo" -> "notify"
      [] step = "notify" -> "eval_setup"

next_step(step) ==
    CASE step = "store_task" -> "generate"
      [] step = "generate" -> "create"
      [] step = "create" -> "upload"
      [] step = "upload" -> "enable"
      [] step = "enable" -> "store_repo"
      [] step = "store_repo" -> "notify"
      [] step = "notify" -> "eval_setup"

\* an upload failure that is logged and ignored
on_exception_upload_ignored(step) ==
    IF step \in {"store_task", "upload"} THEN "continue" ELSE "fail"

\* what an exception of a collaborator does to the run: store_task has its
\* own try/except (61-69), everything from line 73 on falls to line 165
on_exception(step) ==
    IF step = "store_task" THEN "continue" ELSE "fail"

Ev(step, ev) == [step |-> step, ev |-> ev]

NoUrl == [kind |-> "none"]
NoResult == [success |-> FALSE, error |-> "not sent"]

loc0 ==
    [repo_name |-> generate_repo_name("task-a", Brief, 0),
     generated |-> FALSE, files |-> <<>>,
     repo_url |-> NoUrl, commit_sha |-> 0, pages_url |-> NoUrl,
     notification_result |-> NoResult,
     pages_available |-> FALSE,
     evaluation_results |-> <<>>, pi |-> 1, attempted |-> <<>>,
     overall_score |-> NoRet]

\* an upload of nothing
prepare_files_empty(task, brief) == <<>>

\* _prepare_files and _enhance_readme: the four files, in insertion order
prepare_files(task, brief) ==
    << <<"index.html", "html">>,
       <<"README.md", "deployment information + readme">>,
       <<"LICENSE", "license">>,
       <<"deployment-info.json", "metadata">> >>

\* time.time() - deployment_start_time, kept symbolic
Elapsed == "elapsed"

ErrorOutcome(detail) ==
    [status |-> "error",
     error |-> [msg |-> "Deployment failed", detail |-> detail],
     deployment_time |-> Elapsed]

\* line 165: the run ends with an error outcome
Fail(detail) ==
    /\ pc' = "done"
    /\ outcome' = ErrorOutcome(detail)

\* an exception raised by the collaborator call of `step`
Except(step, detail) ==
    IF on_exception(step) = "fail"
    THEN Fail(detail)
    ELSE pc' = next_step(step) /\ UNCHANGED outcome

\* a database call returns (TRUE) or raises (FALSE); at most MaxDbFaults
\* calls of a run raise
DbAnswers == IF db.faults < MaxDbFaults THEN BOOLEAN ELSE {TRUE}
DbFault(ok) == IF ok THEN db.faults ELSE db.faults + 1

Validate ==
    /\ pc = "start"
    /\ IF missing_field(request.present) # ""
       THEN /\ pc' = "done"
            /\ outcome' =
                [status |-> "error",
                 error |-> [msg |-> "Missing required field",
                            detail |-> missing_field(request.present)]]
       ELSE /\ pc' = "store_task"
            /\ UNCHANGED outcome
    /\ UNCHANGED <<repos, files, pages, commits, username, gpc, g, gret, http,
                   drv, evaluator, poll, request, loc, calls, db, notif, browser>>

StoreTask ==
    /\ pc = "store_task"
    /\ \E ok \in DbAnswers :
        /\ db' = IF ok THEN [db EXCEPT !.tasks = @ + 1]
                 ELSE [db EXCEPT !.faults = DbFault(ok)]
        /\ calls' = calls \o <<Ev("store_task", "call"),
                               Ev("store_task", IF ok THEN "ret" ELSE "raise")>>
        /\ IF ok
           THEN pc' = next_step("store_task") /\ UNCHANGED outcome
           ELSE Except("store_task", "store_task raised")
    /\ UNCHANGED <<repos, files, pages, commits, username, gpc, g, gret, http,
                   drv, evaluator, poll, request, loc, notif, browser>>

GenerateApp ==
    /\ pc = "generate"
    /\ \E ok \in BOOLEAN :
        /\ calls' = calls \o <<Ev("generate_app", "call"),
                               Ev("generate_app", IF ok THEN "ret" ELSE "raise")>>
        /\ IF ok
           THEN /\ loc' = [loc EXCEPT
                     !.generated = TRUE,
                     !.repo_name = generate_repo_name(request.task, Brief, 0)]
                /\ pc' = next_step("generate")
                /\ UNCHANGED outcome
           ELSE /\ Except("generate", "generate_app raised")
                /\ UNCHANGED loc
    /\ UNCHANGED <<repos, files, pages, commits, username, gpc, g, gret, http,
                   drv, evaluator, poll, request, db, notif, browser>>

\* a call of a GitHubManager method at line 92, 109 or 118
CallPublisher(step, op) ==
    /\ pc = step
    /\ Enter(op, loc.repo_name,
             IF op = "upload_files" THEN loc.files ELSE <<>>)
    /\ pc' = step \o "_wait"
    /\ calls' = Append(calls, Ev(op, "call"))
    /\ UNCHANGED <<repos, files, pages, commits, username, http,
                   drv, evaluator, poll, request, loc, outcome, db, notif, browser>>

CallCreate == CallPublisher("create", "create_repository")
CallUpload == CallPublisher("upload", "upload_files")
CallPages == CallPublisher("enable", "enable_pages")

\* the method returned or raised
Back(step) == pc = step \o "_wait" /\ gpc = "idle" /\ gret.kind # "none"

RetCreate ==
    /\ Back("create")
    /\ calls' = Append(calls, Ev("create_repository",
                                 IF gret.kind = "value" THEN "ret" ELSE "raise"))
    /\ IF gret.kind = "value"
       THEN /\ loc' = [loc EXCEPT
                 !.repo_url = gret.value,
                 !.files = prepare_files(request.task, Brief)]
            /\ pc' = next_step("create")
            /\ UNCHANGED outcome
       ELSE /\ Except("create", gret.error)
            /\ UNCHANGED loc
    /\ UNCHANGED <<repos, files, pages, commits, username, gpc, g, gret, http,
                   drv, evaluator, poll, request, db, notif, browser>>

RetUpload ==
    /\ Back("upload")
    /\ calls' = Append(calls, Ev("upload_files",
                                 IF gret.kind = "value" THEN "ret" ELSE "raise"))
    /\ IF gret.kind = "value"
       THEN /\ loc' = [loc EXCEPT !.commit_sha = gret.value]
            /\ pc' = next_step("upload")
            /\ UNCHANGED outcome
       ELSE /\ Except("upload", gret.error)
            /\ UNCHANGED loc
    /\ UNCHANGED <<repos, files, pages, commits, username, gpc, g, gret, http,
                   drv, evaluator, poll, request, db, notif, browser>>

RetPages ==
    /\ Back("enable")
    /\ calls' = Append(calls, Ev("enable_pages",
                                 IF gret.kind = "value" THEN "ret" ELSE "raise"))
    /\ IF gret.kind = "value"
       THEN /\ loc' = [loc EXCEPT !.pages_url = gret.value]
            /\ pc' = next_step("enable")
            /\ UNCHANGED outcome
       ELSE /\ Except("enable", gret.error)
            /\ UNCHANGED loc
    /\ UNCHANGED <<repos, files, pages, commits, username, gpc, g, gret, http,
                   drv, evaluator, poll, request, db, notif, browser>>

\* repo_data of lines 125-133
repo_data ==
    [repo_url |-> loc.repo_url, commit_sha |-> loc.commit_sha,
     pages_url |-> loc.pages_url]

StoreRepoInfo ==
    /\ pc = "store_repo"
    /\ \E ok \in DbAnswers :
        /\ calls' = calls \o
                <<Ev("store_repo_info", "call"),
                  Ev("store_repo_info", IF ok THEN "ret" ELSE "raise")>>
        /\ IF ok
           THEN /\ db' = [db EXCEPT !.repos = Append(@, repo_data)]
                /\ pc' = next_step("store_repo")
                /\ UNCHANGED outcome
           ELSE /\ Except("store_repo", "store_repo_info raised")
                /\ db' = [db EXCEPT !.faults = DbFault(ok)]
    /\ UNCHANGED <<repos, files, pages, commits, username, gpc, g, gret, http,
                   drv, evaluator, poll, request, loc, notif, browser>>

(***************************************************************************)
(* DeploymentProcessor._notify_evaluation_endpoint                         *)
(***************************************************************************)
max_retries == 3
retry_delays == <<1, 2, 4>>

\* the callback endpoint: 200, another status, or a RequestException (Exc)
NotifyResponses == {200, 500, 503, Exc}

\* the dictionary returned for a response or exception of the last attempt
notify_failure(r) ==
    IF r = Exc
    THEN [success |-> FALSE, error |-> [kind |-> "exception"]]
    ELSE [success |-> FALSE, error |-> [kind |-> "HTTP", status_code |-> r],
          status_code |-> r]

\* a failed notification that ends the run
after_notification_fatal(result) ==
    IF result.success THEN "continue" ELSE "fail"

\* lines 142-149: the result is printed, the run goes on
after_notification(result) == "continue"

\* a notifier that goes on until the endpoint answers 200
attempt_returns_only_on_200(r, attempt) == r = 200

\* a notifier that gives up at the first response of the endpoint
attempt_returns_on_response(r, attempt) ==
    r # Exc \/ ~(attempt < max_retries - 1)

\* whether the attempt numbered `attempt` (from 0) ends the call: a 200
\* returns at once (291-296), a failure returns when no retry is left
\* (300, 315)
attempt_returns(r, attempt) ==
    r = 200 \/ ~(attempt < max_retries - 1)

NotifyPost ==
    /\ pc = "notify"
    /\ notif.attempt < max_retries
    /\ \E r \in NotifyResponses :
        LET result == IF r = 200
                      THEN [success |-> TRUE, status_code |-> 200]
                      ELSE notify_failure(r)
            ends == attempt_returns(r, notif.attempt)
        IN
        /\ notif' = [attempt |-> IF ends THEN notif.attempt
                                 ELSE notif.attempt + 1,
                     posts |-> notif.posts + 1,
                     uniform |-> notif.posts = 0
                                 \/ (notif.uniform /\ notif.last = r),
                     last |-> r,
                     slept |-> IF ends THEN notif.slept
                               ELSE Append(notif.slept,
                                           retry_delays[notif.attempt + 1])]
        /\ calls' = (calls \o (IF notif.posts = 0
                               THEN <<Ev("notify", "call")>> ELSE <<>>))
                    \o (IF ends THEN <<Ev("notify", "ret")>> ELSE <<>>)
        /\ IF ends
           THEN /\ loc' = [loc EXCEPT !.notification_result = result]
                /\ IF after_notification(result) = "continue"
                   THEN pc' = next_step("notify") /\ UNCHANGED outcome
                   ELSE Fail("notification failed")
           ELSE UNCHANGED <<loc, pc, outcome>>
    /\ UNCHANGED <<repos, files, pages, commits, username, gpc, g, gret, http,
                   drv, evaluator, poll, request, db, browser>>

(***************************************************************************)
(* AppEvaluator                                                            *)
(***************************************************************************)
\* Python values.  A str is the sequence of its characters; a name the code
\* never takes apart is written as one symbol.  A check that is no str (a
\* number of the JSON list) is written NotStr.
Str(chars) == [type |-> "str", chars |-> chars]
NotStr == [type |-> "int", chars |-> <<>>]

\* str.startswith
startswith(s, prefix) ==
    Len(s) >= Len(prefix) /\ SubSeq(s, 1, Len(prefix)) = prefix

\* str.strip for the blank
RECURSIVE lstrip(_)
lstrip(s) ==
    IF s # <<>> /\ Head(s) = " " THEN lstrip(Tail(s)) ELSE s
RECURSIVE rstrip(_)
rstrip(s) ==
    IF s # <<>> /\ s[Len(s)] = " " THEN rstrip(SubSeq(s, 1, Len(s) - 1)) ELSE s
strip(s) == rstrip(lstrip(s))

\* a value page.evaluate, page.query_selector or page.title hands back: its
\* type and its size (the number itself, the length of a str or a list, 1
\* and 0 for True and False)
Js(type, n) == [type |-> type, n |-> n]
None == Js("none", 0)
JsValues ==
    {Js("bool", 1), Js("bool", 0), Js("number", 2), Js("number", 0),
     Js("str", 1), Js("str", 0), None, Js("object", 1), Js("object", 0)}

\* what the page answers to one call: a value, or an exception
Answer(v) == [throws |-> FALSE, value |-> v]
Throws == [throws |-> TRUE, value |-> None]

\* lines 200-209: whether the value of a script passes
js_passed(result) ==
    CASE result.type = "bool" -> result.n = 1
      [] result.type = "number" -> result.n > 0
      [] result.type = "str" -> result.n > 0
      [] result.type = "none" -> FALSE
      [] OTHER -> result.n # 0

\* time.time() - start_time, kept symbolic
Duration == "seconds"

Reason(handler, arg, what) == [handler |-> handler, arg |-> arg, what |-> what]

\* the dictionary of a handler whose own except clause caught an exception
handler_error(handler, arg) ==
    [passed |-> FALSE, result |-> None, execution_time |-> Duration,
     reason |-> Reason(handler, arg, "error")]

\* a handler without its own try: the exception of the script leaves it
evaluate_javascript_check_uncaught(js_code, a) ==
    IF a.throws THEN Raised("page.evaluate raised")
    ELSE [passed |-> js_passed(a.value), result |-> a.value,
          execution_time |-> Duration,
          reason |-> Reason("javascript", js_code, "returned")]

\* evaluate_javascript_check: a is what page.evaluate(js_code) does
evaluate_javascript_check(js_code, a) ==
    IF a.throws THEN handler_error("javascript", js_code)
    ELSE [passed |-> js_passed(a.value), result |-> a.value,
          execution_time |-> Duration,
          reason |-> Reason("javascript", js_code, "returned")]

\* evaluate_element_check: a is what page.query_selector(selector) does
evaluate_element_check(selector, a) ==
    IF a.throws THEN handler_error("element", selector)
    ELSE IF a.value # None
         THEN [passed |-> TRUE, result |-> Js("str", 1),
               execution_time |-> Duration,
               reason |-> Reason("element", selector, "found")]
         ELSE [passed |-> FALSE, result |-> Js("str", 1),
               execution_time |-> Duration,
               reason |-> Reason("element", selector, "not found")]

\* evaluate_text_check: a is page.content() raising, or whether the lowered
\* text is in the lowered content
evaluate_text_check(expected_text, a) ==
    IF a.throws THEN handler_error("text", expected_text)
    ELSE [passed |-> a.value.n = 1, result |-> a.value,
          execution_time |-> Duration,
          reason |-> Reason("text", expected_text,
                            IF a.value.n = 1 THEN "found" ELSE "not found")]

\* evaluate_url_check: a is whether expected_url is in page.url
evaluate_url_check(expected_url, a) ==
    IF a.throws THEN handler_error("url", expected_url)
    ELSE [passed |-> a.value.n = 1, result |-> Js("str", 1),
          execution_time |-> Duration,
          reason |-> Reason("url", expected_url,
                            IF a.value.n = 1 THEN "matches"
                            ELSE "does not match")]

\* the prefixes of run_check
js_prefix == <<"j", "s", ":">>
script_prefix == <<"s", "c", "r", "i", "p", "t", ":">>
element_prefix == <<"e", "l", "e", "m", "e", "n", "t", ":">>
text_prefix == <<"t", "e", "x", "t", ":">>
url_prefix == <<"u", "r", "l", ":">>

\* a dispatch that knows the prefix 'script:' as well
check_handler_with_script(check) ==
    CASE startswith(check, js_prefix) ->
            [handler |-> "javascript",
             arg |-> strip(SubSeq(check, 4, Len(check)))]
      [] startswith(check, script_prefix) ->
            [handler |-> "javascript",
             arg |-> strip(SubSeq(check, 8, Len(check)))]
      [] startswith(check, element_prefix) ->
            [handler |-> "element",
             arg |-> strip(SubSeq(check, 9, Len(check)))]
      [] startswith(check, text_prefix) ->
            [handler |-> "text", arg |-> strip(SubSeq(check, 6, Len(check)))]
      [] startswith(check, url_prefix) ->
            [handler |-> "url", arg |-> strip(SubSeq(check, 5, Len(check)))]
      [] OTHER -> [handler |-> "text", arg |-> check]

\* a dispatch that takes a check without a known prefix for a script
check_handler_default_js(check) ==
    CASE startswith(check, js_prefix) ->
            [handler |-> "javascript",
             arg |-> strip(SubSeq(check, 4, Len(check)))]
      [] startswith(check, element_prefix) ->
            [handler |-> "element",
             arg |-> strip(SubSeq(check, 9, Len(check)))]
      [] startswith(check, text_prefix) ->
            [handler |-> "text", arg |-> strip(SubSeq(check, 6, Len(check)))]
      [] startswith(check, url_prefix) ->
            [handler |-> "url", arg |-> strip(SubSeq(check, 5, Len(check)))]
      [] OTHER -> [handler |-> "javascript", arg |-> check]

\* lines 139-161: the handler a check goes to and the argument it gets
check_handler(check) ==
    CASE startswith(check, js_prefix) ->
            [handler |-> "javascript",
             arg |-> strip(SubSeq(check, 4, Len(check)))]
      [] startswith(check, element_prefix) ->
            [handler |-> "element",
             arg |-> strip(SubSeq(check, 9, Len(check)))]
      [] startswith(check, text_prefix) ->
            [handler |-> "text", arg |-> strip(SubSeq(check, 6, Len(check)))]
      [] startswith(check, url_prefix) ->
            [handler |-> "url", arg |-> strip(SubSeq(check, 5, Len(check)))]
      [] OTHER -> [handler |-> "text", arg |-> check]

\* what the page can answer to the call the handler makes
Answers(handler) ==
    CASE handler = "javascript" -> {Answer(v) : v \in JsValues} \cup {Throws}
      [] handler = "element" ->
            {Answer(None), Answer(Js("object", 1)), Throws}
      [] OTHER -> {Answer(Js("bool", 1)), Answer(Js("bool", 0)), Throws}

\* the call of the handler at lines 142-161: a dictionary, or an exception
\* (check.startswith of a check that is no str raises AttributeError)
handle(check, a) ==
    IF check.type # "str" THEN Raised("AttributeError")
    ELSE LET h == check_handler(check.chars) IN
         CASE h.handler = "javascript" -> evaluate_javascript_check(h.arg, a)
           [] h.handler = "element" -> evaluate_element_check(h.arg, a)
           [] h.handler = "url" -> evaluate_url_check(h.arg, a)
           [] OTHER -> evaluate_text_check(h.arg, a)

\* the answers the page can give to the check
CheckAnswers(check) ==
    IF check.type # "str" THEN {Throws}
    ELSE Answers(check_handler(check.chars).handler)

\* a score taken from the handler's 'result' instead of 'passed'
run_check_result_scores_result(check, result) ==
    IF "kind" \in DOMAIN result
    THEN [check |-> check, passed |-> FALSE, score |-> 0,
          error |-> result.error,
          reason |-> Reason("none", <<>>, "Check execution failed")]
    ELSE [check |-> check, passed |-> result.passed,
          score |-> IF result.result.n # 0 THEN 1 ELSE 0,
          result |-> result.result, reason |-> result.reason,
          execution_time |-> result.execution_time]

\* lines 163-179 of run_check: the result made of the handler's dictionary,
\* or of the exception the try caught; score is 1.0 or 0.0, written 1 or 0
run_check_result(check, result) ==
    IF "kind" \in DOMAIN result
    THEN [check |-> check, passed |-> FALSE, score |-> 0,
          error |-> result.error,
          reason |-> Reason("none", <<>>, "Check execution failed")]
    ELSE [check |-> check, passed |-> result.passed,
          score |-> IF result.passed THEN 1 ELSE 0,
          result |-> result.result, reason |-> result.reason,
          execution_time |-> result.execution_time]

run_check(check, a) == run_check_result(check, handle(check, a))

\* lines 97-98: result['check_index'] = i
with_index(result, i) ==
    [k \in DOMAIN result \cup {"check_index"} |->
        IF k = "check_index" THEN i ELSE result[k]]

\* automatic checks under one try: the first exception ends them
run_automatic_checks_one_try(t, v) ==
    IF t.throws THEN <<>>
    ELSE IF v.throws
    THEN <<[check |-> Str(<<"auto_has_title">>), passed |-> t.value.n > 0,
            score |-> IF t.value.n > 0 THEN 1 ELSE 0, result |-> t.value,
            reason |-> Reason("title", <<>>, "Page title")]>>
    ELSE <<[check |-> Str(<<"auto_has_title">>), passed |-> t.value.n > 0,
            score |-> IF t.value.n > 0 THEN 1 ELSE 0, result |-> t.value,
            reason |-> Reason("title", <<>>, "Page title")],
           [check |-> Str(<<"auto_has_viewport_meta">>),
            passed |-> v.value # None,
            score |-> IF v.value # None THEN 1 ELSE 0,
            reason |-> Reason("viewport", <<>>,
                              IF v.value # None THEN "found" ELSE "none")],
           [check |-> Str(<<"auto_no_js_errors">>), passed |-> TRUE,
            score |-> 1, reason |-> Reason("errors", <<>>, "none detected")]>>

\* run_automatic_checks: t is what page.title() does, v what
\* page.query_selector('meta[name="viewport"]') does
run_automatic_checks(t, v) ==
    << IF t.throws
       THEN [check |-> Str(<<"auto_has_title">>), passed |-> FALSE,
             score |-> 0, error |-> "exception"]
       ELSE [check |-> Str(<<"auto_has_title">>), passed |-> t.value.n > 0,
             score |-> IF t.value.n > 0 THEN 1 ELSE 0, result |-> t.value,
             reason |-> Reason("title", <<>>, "Page title")],
       IF v.throws
       THEN [check |-> Str(<<"auto_has_viewport_meta">>), passed |-> FALSE,
             score |-> 0, error |-> "exception"]
       ELSE [check |-> Str(<<"auto_has_viewport_meta">>),
             passed |-> v.value # None,
             score |-> IF v.value # None THEN 1 ELSE 0,
             reason |-> Reason("viewport", <<>>,
                               IF v.value # None THEN "found" ELSE "none")],
       [check |-> Str(<<"auto_no_js_errors">>), passed |-> TRUE, score |-> 1,
        reason |-> Reason("errors", <<>>, "none detected")] >>

TitleAnswers == {Answer(Js("str", 1)), Answer(Js("str", 0)), Throws}
ViewportAnswers == {Answer(Js("object", 1)), Answer(None), Throws}

\* lines 110-116
page_load_error ==
    [check |-> Str(<<"page_load_error">>), passed |-> FALSE, score |-> 0,
     error |-> "exception", check_index |-> -1]

ev0 ==
    [pc |-> "idle", url |-> NoUrl, checks |-> <<>>, i |-> 1, results |-> <<>>,
     answers |-> <<>>, load |-> "none", ret |-> NoRet]

\* entry of evaluate_app
EvEnter(url, checks) ==
    /\ evaluator.pc = "idle"
    /\ evaluator' = [ev0 EXCEPT !.pc = "open", !.url = url, !.checks = checks]

\* lines 68-69
evaluate_app_entry(has_browser) == IF has_browser THEN "open" ELSE "raise"

\* lines 68-80: without a browser RuntimeError is raised; new_context and
\* new_page are called outside the try
EvOpen ==
    /\ evaluator.pc = "open"
    /\ IF evaluate_app_entry(browser) = "raise"
       THEN evaluator' = [evaluator EXCEPT
                !.pc = "idle", !.ret = Raised("Browser not initialized")]
       ELSE \E ok \in BOOLEAN :
            evaluator' =
                IF ok THEN [evaluator EXCEPT !.pc = "load"]
                ELSE [evaluator EXCEPT
                        !.pc = "idle", !.ret = Raised("new_context raised")]
    /\ UNCHANGED <<repos, files, pages, commits, username, gpc, g, gret, http,
                   drv, poll, pc, request, loc, calls, outcome, db, notif,
                   browser>>

\* a try around the load alone: the error is recorded and the checks run
on_load_error_then_checks(loaded) ==
    IF loaded = "ok" THEN [error |-> FALSE, next |-> "checks"]
    ELSE [error |-> TRUE, next |-> "checks"]

\* a load without an except clause
on_load_uncaught(loaded) ==
    IF loaded = "ok" THEN [error |-> FALSE, next |-> "checks"]
    ELSE [error |-> FALSE, next |-> "raise"]

\* lines 84-116: after goto, wait_for_timeout and title the checks run; an
\* exception of these appends page_load_error and ends the evaluation
on_load(loaded) ==
    IF loaded = "ok" THEN [error |-> FALSE, next |-> "checks"]
    ELSE [error |-> TRUE, next |-> "return"]

EvLoad ==
    /\ evaluator.pc = "load"
    /\ \E loaded \in {"ok", "raised"} :
        LET o == on_load(loaded)
            results == IF o.error
                       THEN Append(evaluator.results, page_load_error)
                       ELSE evaluator.results
        IN evaluator' =
            CASE o.next = "checks" ->
                    [evaluator EXCEPT !.pc = "checks", !.load = loaded,
                                      !.results = results]
              [] o.next = "return" ->
                    [evaluator EXCEPT !.pc = "idle", !.load = loaded,
                                      !.results = results,
                                      !.ret = Value(results)]
              [] OTHER ->
                    [evaluator EXCEPT !.pc = "idle", !.load = loaded,
                                      !.ret = Raised("page.goto raised")]
    /\ UNCHANGED <<repos, files, pages, commits, username, gpc, g, gret, http,
                   drv, poll, pc, request, loc, calls, outcome, db, notif,
                   browser>>

\* lines 95-102: one turn of the loop over the checks
EvCheck ==
    /\ evaluator.pc = "checks"
    /\ evaluator.i <= Len(evaluator.checks)
    /\ LET check == evaluator.checks[evaluator.i] IN
       \E a \in CheckAnswers(check) :
        evaluator' = [evaluator EXCEPT
            !.results = Append(@, with_index(run_check(check, a),
                                             evaluator.i - 1)),
            !.answers = Append(@, a),
            !.i = @ + 1]
    /\ UNCHANGED <<repos, files, pages, commits, username, gpc, g, gret, http,
                   drv, poll, pc, request, loc, calls, outcome, db, notif,
                   browser>>

\* lines 104-124: the automatic checks, the clean-up and the return
EvAuto ==
    /\ evaluator.pc = "checks"
    /\ evaluator.i > Len(evaluator.checks)
    /\ \E t \in TitleAnswers, v \in ViewportAnswers :
        LET results == evaluator.results \o run_automatic_checks(t, v) IN
        evaluator' = [evaluator EXCEPT !.pc = "idle", !.results = results,
                                       !.ret = Value(results)]
    /\ UNCHANGED <<repos, files, pages, commits, username, gpc, g, gret, http,
                   drv, poll, pc, request, loc, calls, outcome, db, notif,
                   browser>>

Evaluator == EvOpen \/ EvLoad \/ EvCheck \/ EvAuto

(***************************************************************************)
(* The availability poll: AppEvaluator.wait_for_pages_availability loads   *)
(* the page in the browser, GitHubManager.verify_pages_deployment fetches  *)
(* it with requests.get.  Time is counted in seconds from start_time.      *)
(***************************************************************************)
Pollers == {"wait_for_pages_availability", "verify_pages_deployment"}

\* time.sleep(10) of evaluator.py line 440 and github_integration.py line 315
poll_interval == 10

\* what a load gives and how long it takes: a response with its status, at
\* once or as late as the timeout allows, or an exception (Exc) at the
\* timeout
Load(status, seconds) == [status |-> status, seconds |-> seconds]
PollResponses == {Load(200, 1), Load(200, 30), Load(404, 1), Load(Exc, 30)}

poll0 ==
    [pc |-> "idle", op |-> "none", url |-> NoUrl, max_wait_time |-> 0,
     elapsed |-> 0, attempts |-> 0, begun |-> 0, last |-> Exc, slept |-> 0,
     ret |-> NoRet]

\* entry of a poll
PollEnter(op, url, max_wait_time) ==
    /\ poll.pc = "idle"
    /\ poll' = [poll0 EXCEPT !.pc = "open", !.op = op, !.url = url,
                             !.max_wait_time = max_wait_time]

PollReturn(v) == poll' = [poll EXCEPT !.pc = "idle", !.ret = v]

\* evaluator.py lines 421-427: setup() if there is no browser, then a new
\* context and page; either can raise, and nothing catches it
PollOpen ==
    /\ poll.pc = "open"
    /\ IF poll.op = "verify_pages_deployment"
       THEN poll' = [poll EXCEPT !.pc = "test"] /\ UNCHANGED browser
       ELSE \E r \in {"ok", "setup_raised", "new_context_raised"} :
            /\ r = "setup_raised" => ~browser
            /\ browser' = (browser \/ r # "setup_raised")
            /\ IF r = "ok"
               THEN poll' = [poll EXCEPT !.pc = "test"]
               ELSE PollReturn(Raised(r))
    /\ UNCHANGED <<repos, files, pages, commits, username, gpc, g, gret, http,
                   drv, evaluator, pc, request, loc, calls, outcome, db, notif>>

\* the loop condition: time.time() - start_time < max_wait_time; when it
\* fails the poll returns False
PollTest ==
    /\ poll.pc = "test"
    /\ IF poll.elapsed < poll.max_wait_time
       THEN poll' = [poll EXCEPT !.pc = "load"]
       ELSE PollReturn(Value(FALSE))
    /\ UNCHANGED <<repos, files, pages, commits, username, gpc, g, gret, http,
                   drv, evaluator, pc, request, loc, calls, outcome, db, notif,
                   browser>>

\* a poll that takes any response for the site being up
poll_on_any_response(response) ==
    IF response # Exc THEN "return_true" ELSE "sleep"

\* what the loop does with the outcome of a load: only a response with
\* status 200 returns True, everything else goes on to the sleep
poll_on(response) ==
    IF response # Exc /\ response = 200 THEN "return_true" ELSE "sleep"

PollLoad ==
    /\ poll.pc = "load"
    /\ \E response \in PollResponses :
        LET p == [poll EXCEPT !.attempts = @ + 1, !.begun = poll.elapsed,
                              !.elapsed = @ + response.seconds,
                              !.last = response.status] IN
        IF poll_on(response.status) = "return_true"
        THEN poll' = [p EXCEPT !.pc = "idle", !.ret = Value(TRUE)]
        ELSE poll' = [p EXCEPT !.pc = "sleep"]
    /\ UNCHANGED <<repos, files, pages, commits, username, gpc, g, gret, http,
                   drv, evaluator, pc, request, loc, calls, outcome, db, notif,
                   browser>>

\* the sleep that follows a failed attempt; the response is not used again
PollSleep ==
    /\ poll.pc = "sleep"
    /\ poll' = [poll EXCEPT !.pc = "test", !.elapsed = @ + poll_interval,
                            !.slept = @ + poll_interval,
                            !.last = Exc, !.begun = 0]
    /\ UNCHANGED <<repos, files, pages, commits, username, gpc, g, gret, http,
                   drv, evaluator, pc, request, loc, calls, outcome, db, notif,
                   browser>>

Poller == PollOpen \/ PollTest \/ PollLoad \/ PollSleep

(***************************************************************************)
(* DeploymentProcessor._perform_evaluation                                 *)
(***************************************************************************)
\* an except branch that returns no result
evaluation_error_none == <<>>

\* lines 379-386
evaluation_error ==
    <<[check |-> Str(<<"evaluation_error">>), passed |-> FALSE, score |-> 0,
       error |-> "exception"]>>

\* the except branch of line 379: one synthetic result, nothing stored
EvalFailed ==
    /\ loc' = [loc EXCEPT !.evaluation_results = evaluation_error]
    /\ pc' = "finish"

EvalSetup ==
    /\ pc = "eval_setup"
    /\ IF browser
       THEN /\ pc' = "eval_wait"
            /\ UNCHANGED <<browser, loc, calls>>
       ELSE \E ok \in BOOLEAN :
            /\ calls' = calls \o <<Ev("setup", "call"),
                                   Ev("setup", IF ok THEN "ret" ELSE "raise")>>
            /\ IF ok
               THEN browser' = TRUE /\ pc' = "eval_wait" /\ UNCHANGED loc
               ELSE EvalFailed /\ UNCHANGED browser
    /\ UNCHANGED <<repos, files, pages, commits, username, gpc, g, gret, http,
                   drv, evaluator, poll, request, outcome, db, notif>>

\* line 348: wait_for_pages_availability(pages_url, max_wait_time=120)
max_wait_time == 120

EvalWait ==
    /\ pc = "eval_wait"
    /\ PollEnter("wait_for_pages_availability", loc.pages_url, max_wait_time)
    /\ pc' = "eval_wait_back"
    /\ calls' = Append(calls, Ev("wait_for_pages_availability", "call"))
    /\ UNCHANGED <<repos, files, pages, commits, username, gpc, g, gret, http,
                   drv, evaluator, request, loc, outcome, db, notif, browser>>

\* an evaluation step that gives up when the site is not available
after_wait_gate(pages_available) ==
    IF pages_available THEN "evaluate" ELSE "fail"

\* lines 350-355: a poll that timed out is printed, the evaluation runs
after_wait(pages_available) == "evaluate"

\* the poll returned or raised
EvalWaitBack ==
    /\ pc = "eval_wait_back"
    /\ poll.pc = "idle" /\ poll.ret.kind # "none"
    /\ calls' = Append(calls, Ev("wait_for_pages_availability",
                                 IF poll.ret.kind = "value" THEN "ret"
                                 ELSE "raise"))
    /\ IF poll.ret.kind = "value"
       THEN IF after_wait(poll.ret.value) = "evaluate"
            THEN /\ loc' = [loc EXCEPT !.pages_available = poll.ret.value]
                 /\ pc' = "eval_run"
            ELSE EvalFailed
       ELSE EvalFailed
    /\ poll' = poll0
    /\ UNCHANGED <<repos, files, pages, commits, username, gpc, g, gret, http,
                   drv, evaluator, request, outcome, db, notif, browser>>

\* line 355: evaluate_app(pages_url, checks)
EvalRun ==
    /\ pc = "eval_run"
    /\ EvEnter(loc.pages_url, request.checks)
    /\ pc' = "eval_run_back"
    /\ calls' = Append(calls, Ev("evaluate_app", "call"))
    /\ UNCHANGED <<repos, files, pages, commits, username, gpc, g, gret, http,
                   drv, poll, request, loc, outcome, db, notif, browser>>

\* evaluate_app returned its results or raised
EvalRunBack ==
    /\ pc = "eval_run_back"
    /\ evaluator.pc = "idle" /\ evaluator.ret.kind # "none"
    /\ calls' = Append(calls, Ev("evaluate_app",
                                 IF evaluator.ret.kind = "value" THEN "ret"
                                 ELSE "raise"))
    /\ IF evaluator.ret.kind = "value"
       THEN /\ loc' = [loc EXCEPT
                    !.evaluation_results = evaluator.ret.value, !.pi = 1]
            /\ pc' = "persist"
       ELSE EvalFailed
    /\ evaluator' = ev0
    /\ UNCHANGED <<repos, files, pages, commits, username, gpc, g, gret, http,
                   drv, poll, request, outcome, db, notif, browser>>

\* a loop that a failed store ends
after_store_break(i, ok) ==
    IF ok THEN i + 1 ELSE Len(loc.evaluation_results) + 1

\* lines 358-368: the index of the next result, the store having returned
\* (ok) or raised
after_store(i, ok) == i + 1

\* r.get('passed', False)
get_passed(r) == IF "passed" \in DOMAIN r THEN r.passed ELSE FALSE

\* line 371
total_checks(evaluation_results) == Len(evaluation_results)

\* line 372
passed_checks(evaluation_results) ==
    Cardinality({i \in 1..Len(evaluation_results) :
                    get_passed(evaluation_results[i])})

RECURSIVE gcd(_, _)
gcd(a, b) == IF b = 0 THEN a ELSE gcd(b, a % b)

\* the float p / n of two small naturals, n > 0, kept as the fraction in
\* lowest terms: two such quotients are the same float exactly when they are
\* the same fraction
Quotient(p, n) == [num |-> p \div gcd(p, n), den |-> n \div gcd(p, n)]

\* the results whose check_index names a supplied check
supplied_results(evaluation_results) ==
    SelectSeq(evaluation_results,
              LAMBDA r : "check_index" \in DOMAIN r /\ r.check_index >= 0)

\* a ratio over the supplied checks alone
overall_score_of_supplied(evaluation_results) ==
    IF Len(supplied_results(evaluation_results)) > 0
    THEN Value(Quotient(passed_checks(supplied_results(evaluation_results)),
                        Len(supplied_results(evaluation_results))))
    ELSE Value(Quotient(0, 1))

\* a division without the test of total_checks
overall_score_unguarded(evaluation_results) ==
    IF total_checks(evaluation_results) = 0
    THEN Raised("ZeroDivisionError")
    ELSE Value(Quotient(passed_checks(evaluation_results),
                        total_checks(evaluation_results)))

\* line 373
overall_score(evaluation_results) ==
    IF total_checks(evaluation_results) > 0
    THEN Value(Quotient(passed_checks(evaluation_results),
                        total_checks(evaluation_results)))
    ELSE Value(Quotient(0, 1))

\* lines 358-375: one turn of the loop over the results; after the last one
\* the overall score is computed
Persist ==
    /\ pc = "persist"
    /\ loc.pi <= Len(loc.evaluation_results)
    /\ \E ok \in DbAnswers :
        LET result == loc.evaluation_results[loc.pi] IN
        /\ db' = IF ok THEN [db EXCEPT !.results = Append(@, result.check)]
                 ELSE [db EXCEPT !.faults = DbFault(ok)]
        /\ loc' = [loc EXCEPT
                !.attempted = Append(@, [check |-> result.check, ok |-> ok]),
                !.pi = after_store(loc.pi, ok),
                !.overall_score =
                    IF after_store(loc.pi, ok) > Len(loc.evaluation_results)
                    THEN overall_score(loc.evaluation_results) ELSE @]
        /\ pc' = IF after_store(loc.pi, ok) > Len(loc.evaluation_results)
                 THEN "finish" ELSE "persist"
    /\ UNCHANGED <<repos, files, pages, commits, username, gpc, g, gret, http,
                   drv, evaluator, poll, request, calls, outcome, notif, browser>>

\* lines 155-163
success_outcome ==
    [status |-> "success", repo_url |-> loc.repo_url,
     pages_url |-> loc.pages_url, commit_sha |-> loc.commit_sha,
     deployment_time |-> Elapsed, evaluation_results |-> loc.evaluation_results,
     notification_result |-> loc.notification_result]

Finish ==
    /\ pc = "finish"
    /\ pc' = "done"
    /\ outcome' = success_outcome
    /\ UNCHANGED <<repos, files, pages, commits, username, gpc, g, gret, http,
                   drv, evaluator, poll, request, loc, calls, db, notif, browser>>

(***************************************************************************)
(* A caller that uses one GitHubManager directly, one method at a time.    *)
(***************************************************************************)
Paths == <<"README.md", "index.html", "LICENSE">>
Contents == {"v1", "v2"}

\* dicts of filename -> content, in insertion order: up to MaxFiles of
\* Paths, each with one of Contents
FileMaps ==
    {fs \in UNION {[1..n -> Range(Paths) \X Contents] : n \in 0..MaxFiles} :
        \A i, j \in 1..Len(fs) :
            /\ i < j =>
                \E a, b \in 1..Len(Paths) :
                    a < b /\ Paths[a] = fs[i][1] /\ Paths[b] = fs[j][1]
            /\ fs[i][2] = fs[j][2]}

Methods == {"create_repository", "upload_files", "enable_pages"}

\* what a finished create_repository call gave its caller
CreateRecord ==
    [name |-> g.name, url |-> gret.value,
     how |-> IF \E k \in 1..Len(http) : http[k].req = "GET /repos"
             THEN "existing" ELSE "created"]

DirectCall ==
    /\ drv.n < MaxCalls
    /\ \E op \in Methods, name \in RepoNames, fs \in FileMaps :
        /\ op # "upload_files" => fs = <<>>
        /\ Enter(op, name, fs)
    /\ http' = <<>>
    /\ drv' = [n |-> drv.n + 1,
               created |-> IF g.op = "create_repository" /\ gret.kind = "value"
                           THEN drv.created \cup {CreateRecord}
                           ELSE drv.created]
    /\ UNCHANGED <<repos, files, pages, commits, username, orch, evaluator, poll>>

g0 == [op |-> "none", name |-> generate_repo_name("task-a", Brief, 0),
       fs |-> <<>>, i |-> 1, latest_sha |-> 0, file_sha |-> 0,
       faulted |-> FALSE, attached |-> 0]

InitPublisher ==
    /\ repos = <<>>
    /\ files = <<>>
    /\ pages = {}
    /\ commits = 0
    /\ username = ""
    /\ gpc = "idle"
    /\ g = g0
    /\ gret = NoRet
    /\ http = <<>>
    /\ drv = [n |-> 0, created |-> {}]
    /\ pc = "off"
    /\ request = [present |-> Range(RequiredFields), task |-> "task-a",
                  checks |-> <<>>]
    /\ loc = loc0
    /\ calls = <<>>
    /\ outcome = [status |-> "none"]
    /\ db = [tasks |-> 0, repos |-> <<>>, results |-> <<>>, faults |-> 0]
    /\ notif = [attempt |-> 0, posts |-> 0, uniform |-> TRUE, last |-> Exc,
                slept |-> <<>>]
    /\ browser = FALSE
    /\ evaluator = ev0
    /\ poll = poll0

NextPub == DirectCall \/ Publisher

SpecPub == InitPublisher /\ [][NextPub]_vars

(***************************************************************************)
(* Properties of the repository publisher (SpecPub).                       *)
(***************************************************************************)
Finished(op) == gpc = "idle" /\ g.op = op /\ gret.kind # "none"
Returned(op) == gpc = "idle" /\ g.op = op /\ gret.kind = "value"
Puts == SelectSeq(http, LAMBDA e : e.req = "PUT /contents")
AllCreated ==
    drv.created \cup
        (IF Returned("create_repository") THEN {CreateRecord} ELSE {})

\* C9: create_repository is idempotent by name: every call that returns for
\* one name returns the same URL and the account holds exactly one repository
\* of that name; on a name conflict (422 for an existing repository) the
\* lookup's URL is returned instead of an error; upload_files into an
\* existing repository succeeds when the provider answers every request.
C9_CreateIdempotent ==
    /\ \A p, q \in AllCreated : p.name = q.name => p.url = q.url
    /\ \A p \in AllCreated : Count(p.name) = 1
    /\ (Finished("create_repository") /\ ~g.faulted /\ g.name \in RepoSet)
        => gret.kind = "value" /\ gret.value = RepoUrl(Login, g.name)
    /\ (Finished("upload_files") /\ ~g.faulted /\ g.name \in RepoSet)
        => gret.kind = "value"

\* a repository was created, created again (resolved by lookup) and then
\* uploaded into, with a file updated in place
C9_Witness ==
    /\ Returned("upload_files")
    /\ \E k \in 1..Len(Puts) : Puts[k].sha # 0
    /\ \E p, q \in drv.created :
        /\ p.name = g.name /\ q.name = g.name
        /\ p.how = "created" /\ q.how = "existing"

\* C10: upload_files writes the files one at a time in dict order; each
\* write directly follows a probe of the same path and carries the probed
\* sha iff the probe answered 200; the call returns the commit id of the
\* last write, and afterwards every uploaded path holds the new content.
C10_UploadFiles ==
    g.op = "upload_files" =>
        /\ \A k \in 1..Len(Puts) : Puts[k].path = g.fs[k][1]
        /\ \A k \in 1..Len(http) :
            http[k].req = "PUT /contents" =>
                /\ k > 1
                /\ http[k-1].req = "GET /contents"
                /\ http[k-1].path = http[k].path
                /\ http[k-1].repo = http[k].repo
                /\ (http[k].sha # 0) <=> (http[k-1].status = 200)
        /\ Returned("upload_files") =>
            /\ Len(Puts) = Len(g.fs)
            /\ \A k \in 1..Len(Puts) : Puts[k].status \in {200, 201}
            /\ Len(g.fs) > 0 =>
                /\ gret.value = commits
                /\ gret.value = files[<<g.name, g.fs[Len(g.fs)][1]>>].sha
            /\ \A i \in 1..Len(g.fs) :
                /\ <<g.name, g.fs[i][1]>> \in DOMAIN files
                /\ files[<<g.name, g.fs[i][1]>>].content = g.fs[i][2]

\* an upload of two files returned: one updated in place, one created
C10_Witness ==
    /\ Returned("upload_files")
    /\ Len(g.fs) >= 2
    /\ \E j, k \in 1..Len(Puts) :
        /\ Puts[j].sha # 0 /\ Puts[j].status = 200
        /\ Puts[k].sha = 0 /\ Puts[k].status = 201

\* C11: when the provider answers the activation request with 409, no further
\* request is sent, enable_pages does not raise and returns the URL built
\* from the account name and the repository name; when it answers 201,
\* enable_pages returns the URL the provider reported for the site.
C11_PagesConflict ==
    \A k \in 1..Len(http) :
        (http[k].req = "POST /pages" /\ http[k].status \in {201, 409}) =>
            /\ k = Len(http)
            /\ Finished("enable_pages")
            /\ gret.kind = "value"
            /\ http[k].repo = g.name
            /\ http[k].status = 409 =>
                /\ username = Login
                /\ gret.value = PagesUrl(username, g.name)
            /\ http[k].status = 201 =>
                /\ g.name \in pages
                /\ gret.value = PagesUrl(Login, g.name)

\* hosting was already active and enable_pages returned its URL
C11_Witness ==
    /\ Returned("enable_pages")
    /\ Len(http) > 0
    /\ http[Len(http)].req = "POST /pages"
    /\ http[Len(http)].status = 409
    /\ gret.value = PagesUrl(Login, g.name)

\* a response that is an error and neither a raised wrapper nor the
\* documented special case of its request
Refusal(r) ==
    /\ r.status \notin {200, 201, Exc}
    /\ r.req = "POST /user/repos" => r.status # 422
    /\ r.req = "POST /pages" => r.status # 409

\* the operation raised at request k, with the status of that response in
\* the message, and sent nothing after it
RaisedAt(k) ==
    /\ k = Len(http)
    /\ gret.kind = "raise"
    /\ g.attached = http[k].status

\* C31 as stated: an error response to the creation, the file probe, the
\* file write or the hosting activation makes the operation raise at once
\* with the status attached and send no further request.
C31_AsStated ==
    \A k \in DOMAIN http :
        (/\ http[k].req \in {"POST /user/repos", "GET /contents",
                             "PUT /contents", "POST /pages"}
         /\ Refusal(http[k]))
        => RaisedAt(k)

\* C31: an error response to the creation (other than 422) or to a file
\* write makes the operation raise at once with that status in the message
\* and nothing sent after it; the file probe never raises on a response:
\* any status other than 200 counts as "no such file" and the write of that
\* path follows without a sha; a hosting activation answered with a status
\* other than 201 and 409 is followed by one GET of the pages information,
\* whose 200 is returned and whose other statuses raise with the status of
\* the POST in the message.
C31_ErrorResponses ==
    \A k \in DOMAIN http :
        LET r == http[k] IN
        /\ (r.req \in {"POST /user/repos", "PUT /contents"} /\ Refusal(r))
            => (RaisedAt(k) /\ gret.error \in {"Failed to create repository",
                                               "Failed to upload"})
        /\ (r.req = "GET /contents" /\ r.status # Exc)
            => IF k = Len(http)
               THEN gpc = "upload_put" /\ gret = NoRet
               ELSE /\ http[k + 1].req = "PUT /contents"
                    /\ http[k + 1].path = r.path
                    /\ r.status # 200 => http[k + 1].sha = 0
        /\ (r.req = "POST /pages" /\ Refusal(r))
            => IF k = Len(http)
               THEN gpc = "pages_get" /\ gret = NoRet
               ELSE /\ k + 1 = Len(http)
                    /\ http[k + 1].req = "GET /pages"
                    /\ http[k + 1].status = 200 => gret.kind = "value"
                    /\ http[k + 1].status \notin {200, Exc}
                        => /\ gret = Raised("Failed to enable GitHub Pages")
                           /\ g.attached = r.status

\* a hosting activation refused with 500 whose follow-up GET found no site:
\* the error carries the 500
C31_Witness ==
    /\ Finished("enable_pages")
    /\ Len(http) >= 2
    /\ http[Len(http) - 1].req = "POST /pages"
    /\ http[Len(http) - 1].status = 500
    /\ http[Len(http)].status = 404
    /\ g.attached = 500

\* C32: every request the publisher sends to the provider, the lookup of
\* the account included, is sent by the request wrapper and has its 30 s
\* timeout.
C32_AllThroughWrapper ==
    \A k \in DOMAIN http :
        http[k].via = "_make_api_request" /\ http[k].timeout = 30

(***************************************************************************)
(* A caller that uses one AppEvaluator directly: setup and teardown in any *)
(* order, then one evaluation or one poll.                                 *)
(***************************************************************************)
MaxExprs == 2

Expr_js == Str(js_prefix \o <<" ", "1">>)
Expr_script == Str(script_prefix \o <<"1">>)
Expr_element == Str(element_prefix \o <<"p">>)
Expr_text == Str(text_prefix \o <<"a", " ">>)
Expr_url == Str(url_prefix \o <<"/">>)
Expr_plain == Str(<<"a">>)

Exprs ==
    {Expr_js, Expr_script, Expr_element, Expr_text, Expr_url, Expr_plain,
     NotStr}

CheckLists == UNION {[1..n -> Exprs] : n \in 0..MaxExprs}

\* max_wait_time of a poll
MaxWaits == {0, 5, 25}

SiteUrl == PagesUrl(Login, generate_repo_name("task-a", Brief, 0))

NothingCalled ==
    /\ evaluator.pc = "idle" /\ evaluator.ret = NoRet
    /\ poll.pc = "idle" /\ poll.ret = NoRet

\* AppEvaluator.setup: the browser is launched, or the launch raises
DirectSetup ==
    /\ NothingCalled
    /\ \E ok \in BOOLEAN : browser' = (browser \/ ok)
    /\ drv' = [drv EXCEPT !.n = 1]
    /\ UNCHANGED <<repos, files, pages, commits, username, gpc, g, gret, http,
                   evaluator, poll, orch_but_browser>>

\* AppEvaluator.teardown
DirectTeardown ==
    /\ NothingCalled
    /\ browser' = FALSE
    /\ drv' = [drv EXCEPT !.n = 1]
    /\ UNCHANGED <<repos, files, pages, commits, username, gpc, g, gret, http,
                   evaluator, poll, orch_but_browser>>

DirectEvaluate ==
    /\ NothingCalled
    /\ \E checks \in CheckLists : EvEnter(SiteUrl, checks)
    /\ UNCHANGED <<repos, files, pages, commits, username, gpc, g, gret, http,
                   drv, poll, orch>>

DirectPoll ==
    /\ NothingCalled
    /\ \E op \in Pollers, w \in MaxWaits : PollEnter(op, SiteUrl, w)
    /\ UNCHANGED <<repos, files, pages, commits, username, gpc, g, gret, http,
                   drv, evaluator, orch>>

InitEvaluator ==
    /\ repos = <<>>
    /\ files = <<>>
    /\ pages = {}
    /\ commits = 0
    /\ username = ""
    /\ gpc = "idle"
    /\ g = g0
    /\ gret = NoRet
    /\ http = <<>>
    /\ drv = [n |-> 0, created |-> {}]
    /\ pc = "off"
    /\ request = [present |-> Range(RequiredFields), task |-> "task-a",
                  checks |-> <<>>]
    /\ loc = loc0
    /\ calls = <<>>
    /\ outcome = [status |-> "none"]
    /\ db = [tasks |-> 0, repos |-> <<>>, results |-> <<>>, faults |-> 0]
    /\ notif = [attempt |-> 0, posts |-> 0, uniform |-> TRUE, last |-> Exc,
                slept |-> <<>>]
    /\ browser = FALSE
    /\ evaluator = ev0
    /\ poll = poll0

NextEval ==
    \/ DirectSetup \/ DirectTeardown \/ DirectEvaluate \/ DirectPoll
    \/ Evaluator \/ Poller

SpecEval == InitEvaluator /\ [][NextEval]_vars

(***************************************************************************)
(* Properties of the evaluator and the availability poll (SpecEval).       *)
(***************************************************************************)
PollReturned(v) == poll.pc = "idle" /\ poll.ret = Value(v)

\* C13: a poll returns True exactly when its last attempt, begun before the
\* deadline, was answered 200, and no attempt follows a 200; every other
\* attempt (another status, an exception) is followed by a sleep of 10 s; the
\* poll returns False only once max_wait_time has elapsed; the loop itself
\* never raises.
C13_Poll ==
    /\ PollReturned(TRUE) <=> (poll.attempts > 0 /\ poll.last = 200)
    /\ poll.attempts > 0 => poll.begun < poll.max_wait_time
    /\ PollReturned(FALSE) =>
        /\ poll.elapsed >= poll.max_wait_time
        /\ poll.slept = 10 * poll.attempts
    /\ PollReturned(TRUE) => poll.slept = 10 * (poll.attempts - 1)
    /\ poll.pc = "sleep" =>
        /\ poll.last # 200
        /\ poll.slept = 10 * (poll.attempts - 1)
    /\ poll.pc \in {"test", "load"} => poll.slept = 10 * poll.attempts
    /\ poll.ret.kind = "raise" =>
        /\ poll.attempts = 0
        /\ poll.op = "wait_for_pages_availability"

\* the second attempt began before the deadline and was answered 200 after
\* it
C13_Witness ==
    /\ PollReturned(TRUE)
    /\ poll.attempts = 2
    /\ poll.begun < poll.max_wait_time
    /\ poll.elapsed > poll.max_wait_time

\* the results of the supplied checks run so far, the page being loaded
Ran == IF evaluator.load = "ok" THEN 1..Len(evaluator.answers) ELSE {}
EvReturned == evaluator.pc = "idle" /\ evaluator.ret.kind = "value"

\* C15: when the page load fails, evaluate_app returns exactly one result,
\* page_load_error with passed False and score 0.0, and no check has run; a
\* result named page_load_error is never in a report with another result.
C15_PageLoadError ==
    /\ evaluator.load = "raised" =>
        /\ EvReturned
        /\ Len(evaluator.ret.value) = 1
        /\ evaluator.ret.value[1].check = Str(<<"page_load_error">>)
        /\ ~evaluator.ret.value[1].passed
        /\ evaluator.ret.value[1].score = 0
        /\ evaluator.answers = <<>> /\ evaluator.i = 1
    /\ \A k \in 1..Len(evaluator.results) :
        evaluator.results[k].check = Str(<<"page_load_error">>)
            => Len(evaluator.results) = 1

\* the load failed with two checks supplied
C15_Witness ==
    /\ EvReturned
    /\ evaluator.load = "raised"
    /\ Len(evaluator.checks) = 2
    /\ evaluator.ret.value = <<page_load_error>>

\* C16 as stated: a check 'script:1' goes to the script handler with the
\* payload '1'.
C16_AsStated ==
    \A k \in Ran :
        evaluator.checks[k] = Expr_script =>
            /\ evaluator.results[k].reason.handler = "javascript"
            /\ evaluator.results[k].reason.arg = <<"1">>

\* C16: a check with the prefix 'js:' goes to the script handler: the text
\* after the prefix, stripped, is evaluated and the value it returns is the
\* result; a check with the prefix 'script:' has no known prefix and is
\* searched for, whole, in the page content.
C16_ScriptPrefix ==
    \A k \in Ran :
        /\ evaluator.checks[k] = Expr_js =>
            /\ evaluator.results[k].reason.handler = "javascript"
            /\ evaluator.results[k].reason.arg = <<"1">>
            /\ ~evaluator.answers[k].throws =>
                /\ evaluator.results[k].result = evaluator.answers[k].value
                /\ evaluator.answers[k].value = Js("bool", 1)
                    => evaluator.results[k].passed
                /\ evaluator.answers[k].value \in {Js("bool", 0), None}
                    => ~evaluator.results[k].passed
        /\ evaluator.checks[k] = Expr_script =>
            /\ evaluator.results[k].reason.handler = "text"
            /\ evaluator.results[k].reason.arg = Expr_script.chars
            /\ evaluator.results[k].passed
                <=> evaluator.answers[k] = Answer(Js("bool", 1))

\* 'js: 1' returned a true value and 'script:1' was found in the page
C16_Witness ==
    /\ EvReturned
    /\ evaluator.load = "ok"
    /\ evaluator.checks = <<Expr_js, Expr_script>>
    /\ evaluator.results[1].passed
    /\ evaluator.results[2].reason = Reason("text", Expr_script.chars, "found")

\* the handler and the argument each check of Exprs is to get
Expected(check) ==
    CASE check = Expr_js -> [handler |-> "javascript", arg |-> <<"1">>]
      [] check = Expr_element -> [handler |-> "element", arg |-> <<"p">>]
      [] check = Expr_text -> [handler |-> "text", arg |-> <<"a">>]
      [] check = Expr_url -> [handler |-> "url", arg |-> <<"/">>]
      [] check = NotStr -> [handler |-> "none", arg |-> <<>>]
      [] OTHER -> [handler |-> "text", arg |-> check.chars]

\* C17: every supplied check gets exactly one result, made by exactly one
\* handler: that of its prefix with the stripped rest, or the text handler
\* with the whole check; an exception in a check gives that check passed
\* False and score 0.0, and the checks after it are run all the same.
C17_DispatchTotal ==
    /\ evaluator.load = "ok" =>
        /\ Len(evaluator.answers) = evaluator.i - 1
        /\ evaluator.pc = "checks" =>
            Len(evaluator.results) = Len(evaluator.answers)
        /\ EvReturned =>
            /\ Len(evaluator.answers) = Len(evaluator.checks)
            /\ Len(evaluator.ret.value) = Len(evaluator.checks) + 3
    /\ \A k \in Ran :
        LET r == evaluator.results[k] IN
        /\ r.check = evaluator.checks[k]
        /\ r.check_index = k - 1
        /\ r.reason.handler = Expected(evaluator.checks[k]).handler
        /\ r.reason.arg = Expected(evaluator.checks[k]).arg
        /\ (evaluator.answers[k].throws \/ "error" \in DOMAIN r) =>
            ~r.passed /\ r.score = 0
        /\ "error" \in DOMAIN r <=> evaluator.checks[k] = NotStr

\* a check that raised was followed by a check that passed
C17_Witness ==
    /\ EvReturned
    /\ evaluator.load = "ok"
    /\ evaluator.checks = <<NotStr, Expr_element>>
    /\ "error" \in DOMAIN evaluator.results[1]
    /\ evaluator.results[2].passed

\* C18 as stated: evaluate_app never raises.
C18_AsStated == evaluator.ret.kind # "raise"

\* C18: evaluate_app raises only before the page load, when there is no
\* browser or no context can be opened; once the context is open it returns
\* a report, whatever the load and the checks do.
C18_EvaluateReturns ==
    /\ evaluator.ret.kind = "raise" =>
        /\ evaluator.load = "none"
        /\ evaluator.results = <<>>
        /\ evaluator.ret.error = "Browser not initialized" <=> ~browser
    /\ evaluator.pc \in {"load", "checks"} => browser
    /\ (evaluator.pc = "idle" /\ evaluator.load # "none") =>
        /\ evaluator.ret.kind = "value"
        /\ Len(evaluator.ret.value) >= 1

\* the load raised and a report was returned
C18_Witness ==
    /\ EvReturned
    /\ evaluator.load = "raised"
    /\ browser

\* C19 as stated: the result of a script that threw has passed False and an
\* error field.
C19_AsStated ==
    \A k \in Ran :
        (evaluator.checks[k] = Expr_js /\ evaluator.answers[k].throws) =>
            /\ ~evaluator.results[k].passed
            /\ "error" \in DOMAIN evaluator.results[k]

\* C19: the result of a script that threw has passed False, score 0.0 and
\* the error in its reason, without an error field; the checks after it are
\* run and get their own results.
C19_ScriptThrows ==
    \A k \in Ran :
        (evaluator.checks[k] = Expr_js /\ evaluator.answers[k].throws) =>
            /\ ~evaluator.results[k].passed
            /\ evaluator.results[k].score = 0
            /\ evaluator.results[k].reason =
                    Reason("javascript", <<"1">>, "error")
            /\ evaluator.results[k].result = None
            /\ "error" \notin DOMAIN evaluator.results[k]
            /\ EvReturned =>
                \A j \in (k + 1)..Len(evaluator.checks) :
                    /\ evaluator.results[j].check = evaluator.checks[j]
                    /\ evaluator.results[j].check_index = j - 1

\* a script threw and the check after it passed
C19_Witness ==
    /\ EvReturned
    /\ evaluator.load = "ok"
    /\ evaluator.checks = <<Expr_js, Expr_text>>
    /\ evaluator.answers[1].throws
    /\ evaluator.results[2].passed

\* the names of the automatic checks, in the order of run_automatic_checks
AutoNames ==
    <<Str(<<"auto_has_title">>), Str(<<"auto_has_viewport_meta">>),
      Str(<<"auto_no_js_errors">>)>>

\* C21: after a successful load with N supplied checks, evaluate_app returns
\* exactly N + 3 results: the result at position i is the one of the i-th
\* supplied check and carries its enumerate index (i - 1) as check_index;
\* the last three are auto_has_title, auto_has_viewport_meta and
\* auto_no_js_errors in this order, without a check_index, whatever the
\* supplied checks did.
C21_ReportShape ==
    (EvReturned /\ evaluator.load = "ok") =>
        LET report == evaluator.ret.value
            N == Len(evaluator.checks)
        IN /\ Len(report) = N + 3
           /\ \A i \in 1..N :
                /\ report[i].check = evaluator.checks[i]
                /\ report[i].check_index = i - 1
           /\ \A j \in 1..3 :
                /\ report[N + j].check = AutoNames[j]
                /\ "check_index" \notin DOMAIN report[N + j]

\* two supplied checks, the first failed and the second raised, and the
\* three automatic results follow, the title check having raised too
C21_Witness ==
    /\ EvReturned /\ evaluator.load = "ok"
    /\ evaluator.checks = <<Expr_element, NotStr>>
    /\ Len(evaluator.ret.value) = 5
    /\ ~evaluator.ret.value[1].passed
    /\ "error" \in DOMAIN evaluator.ret.value[2]
    /\ "error" \in DOMAIN evaluator.ret.value[3]
    /\ evaluator.ret.value[5].check = AutoNames[3]

\* C38: every result of every report of evaluate_app has an execution_time:
\* the results of the supplied checks, whether the check returned or raised,
\* the three automatic results, and the page_load_error result.
C38_EveryResultTimed ==
    EvReturned =>
        \A i \in DOMAIN evaluator.ret.value :
            "execution_time" \in DOMAIN evaluator.ret.value[i]

(***************************************************************************)
(* The overall score of _perform_evaluation on lists of results of any     *)
(* length, the empty one included.                                         *)
(***************************************************************************)
MaxResults == 4

\* results that passed, failed, or carry no 'passed' key
ResultKinds ==
    {[check |-> Str(<<"c">>), passed |-> TRUE, score |-> 1],
     [check |-> Str(<<"c">>), passed |-> FALSE, score |-> 0],
     [check |-> Str(<<"c">>), score |-> 0]}

ResultLists == UNION {[1..n -> ResultKinds] : n \in 0..MaxResults}

InitScore ==
    /\ repos = <<>>
    /\ files = <<>>
    /\ pages = {}
    /\ commits = 0
    /\ username = ""
    /\ gpc = "idle"
    /\ g = g0
    /\ gret = NoRet
    /\ http = <<>>
    /\ drv = [n |-> 0, created |-> {}]
    /\ pc = "score"
    /\ request = [present |-> Range(RequiredFields), task |-> "task-a",
                  checks |-> <<>>]
    /\ \E results \in ResultLists :
            loc = [loc0 EXCEPT !.evaluation_results = results]
    /\ calls = <<>>
    /\ outcome = [status |-> "none"]
    /\ db = [tasks |-> 0, repos |-> <<>>, results |-> <<>>, faults |-> 0]
    /\ notif = [attempt |-> 0, posts |-> 0, uniform |-> TRUE, last |-> Exc,
                slept |-> <<>>]
    /\ browser = FALSE
    /\ evaluator = ev0
    /\ poll = poll0

\* lines 370-375 on the results held
Score ==
    /\ pc = "score"
    /\ loc' = [loc EXCEPT
                !.overall_score = overall_score(loc.evaluation_results)]
    /\ pc' = "scored"
    /\ UNCHANGED <<repos, files, pages, commits, username, gpc, g, gret, http,
                   drv, evaluator, poll, request, calls, outcome, db, notif,
                   browser>>

NextScore == Score

SpecScore == InitScore /\ [][NextScore]_vars

\* C22: the overall score is P/N for N results of which P passed (a result
\* without a 'passed' key counting as not passed), is 0.0 for no result,
\* the division never being made by zero, and lies in [0, 1].
C22_AggregateRatio ==
    pc = "scored" =>
        LET results == loc.evaluation_results
            N == Len(results)
            P == Len(SelectSeq(results,
                        LAMBDA r : "passed" \in DOMAIN r /\ r.passed))
            s == loc.overall_score
        IN /\ s.kind = "value"
           /\ s.value.den > 0
           /\ 0 <= s.value.num /\ s.value.num <= s.value.den
           /\ N = 0 => s.value = [num |-> 0, den |-> 1]
           /\ N > 0 => s.value.num * N = P * s.value.den

\* four results of which two passed: the score is 1/2
C22_Witness ==
    /\ pc = "scored"
    /\ Len(loc.evaluation_results) = 4
    /\ passed_checks(loc.evaluation_results) = 2
    /\ loc.overall_score = Value([num |-> 1, den |-> 2])

(***************************************************************************)
(* DeploymentProcessor._generate_repo_name on the characters of its        *)
(* inputs: a str is the sequence of its characters.                        *)
(***************************************************************************)
MaxTaskLen == 2

\* characters a task id may hold: ASCII letters and a digit, a letter that
\* is not ASCII, the two separators, and a blank, a slash and a dot
TaskChars == {"a", "Z", "7", "é", "-", "_", " ", "/", "."}

\* str.isalnum on one character: true of letters and digits, ASCII or not
isalnum(c) ==
    c \in {"a", "b", "c", "d", "e", "f", "Z", "é",
           "0", "1", "2", "3", "4", "5", "6", "7", "8", "9"}

\* a filter that keeps every character
keeps_all(c) == TRUE

\* line 189: c.isalnum() or c in '-_'
keeps(c) == isalnum(c) \/ c \in {"-", "_"}

\* line 189
clean_task_chars(task) == SelectSeq(task, keeps)

\* line 186: the first 8 of the 32 hexadecimal digits of an md5 digest
Hashes ==
    {<<"0", "0", "0", "0", "0", "0", "0", "0">>,
     <<"d", "4", "1", "d", "8", "c", "d", "9">>,
     <<"f", "f", "9", "a", "b", "e", "0", "7">>}

\* str(n) of a natural number
RECURSIVE str_of_nat(_)
str_of_nat(n) ==
    IF n < 10 THEN <<(<<"0", "1", "2", "3", "4", "5", "6", "7", "8", "9">>)[n + 1]>>
    ELSE Append(str_of_nat(n \div 10),
                (<<"0", "1", "2", "3", "4", "5", "6", "7", "8", "9">>)[(n % 10) + 1])

\* int(time.time()): the first second, a present one, the last of 31 bits
Timestamps == {0, 1762272000, 2147483647}

\* line 197
name_limit == 90

\* lines 186-201
repo_name_chars(task, hash, timestamp) ==
    LET repo_name == clean_task_chars(task) \o <<"-">> \o hash \o <<"-">>
                        \o str_of_nat(timestamp)
    IN IF Len(repo_name) > name_limit THEN SubSeq(repo_name, 1, name_limit)
       ELSE repo_name

\* n times the character c
Repeat(c, n) == [i \in 1..n |-> c]

\* task ids: every str of up to MaxTaskLen characters, and long ones around
\* the length at which the name is cut
LongLens == {69, 70, 71, 84, 90, 150}
TaskIds ==
    UNION {[1..n -> TaskChars] : n \in 0..MaxTaskLen}
        \cup {Repeat(c, n) \o <<d>> : c \in {"a", "é", " "}, d \in {"_", "/"},
                                      n \in LongLens}

InitName ==
    /\ repos = <<>>
    /\ files = <<>>
    /\ pages = {}
    /\ commits = 0
    /\ username = ""
    /\ gpc = "idle"
    /\ g = g0
    /\ gret = NoRet
    /\ http = <<>>
    /\ drv = [n |-> 0, created |-> {}]
    /\ pc = "name"
    /\ \E task \in TaskIds, hash \in Hashes, timestamp \in Timestamps :
            request = [present |-> Range(RequiredFields), task |-> task,
                       checks |-> <<>>, hash |-> hash,
                       timestamp |-> timestamp]
    /\ loc = [loc0 EXCEPT !.repo_name = <<>>]
    /\ calls = <<>>
    /\ outcome = [status |-> "none"]
    /\ db = [tasks |-> 0, repos |-> <<>>, results |-> <<>>, faults |-> 0]
    /\ notif = [attempt |-> 0, posts |-> 0, uniform |-> TRUE, last |-> Exc,
                slept |-> <<>>]
    /\ browser = FALSE
    /\ evaluator = ev0
    /\ poll = poll0

\* line 83: repo_name = self._generate_repo_name(task, brief)
Name ==
    /\ pc = "name"
    /\ loc' = [loc EXCEPT !.repo_name =
                repo_name_chars(request.task, request.hash,
                                request.timestamp)]
    /\ pc' = "named"
    /\ UNCHANGED <<repos, files, pages, commits, username, gpc, g, gret, http,
                   drv, evaluator, poll, request, calls, outcome, db, notif,
                   browser>>

NextName == Name

SpecName == InitName /\ [][NextName]_vars

\* the provider's limit on the length of a repository name
ProviderMax == 100

\* letters, digits and the separators '-' and '_'
NameChars ==
    {"a", "b", "c", "d", "e", "f", "Z", "é", "-", "_",
     "0", "1", "2", "3", "4", "5", "6", "7", "8", "9"}

\* C24: for every task id (empty, long, holding characters that are not
\* allowed) and every brief, the repository name has at most 100 characters
\* (at most 90) and holds only letters, digits, '-' and '_'; it is the
\* cleaned task id, the hash of the brief and the timestamp joined by '-',
\* cut to its first 90 characters.
C24_RepoName ==
    pc = "named" =>
        LET name == loc.repo_name
            full == SelectSeq(request.task, LAMBDA c : c \in NameChars)
                        \o <<"-">> \o request.hash \o <<"-">>
                        \o str_of_nat(request.timestamp)
        IN /\ Len(name) <= ProviderMax
           /\ Len(name) <= 90
           /\ \A i \in 1..Len(name) : name[i] \in NameChars
           /\ Len(name) = IF Len(full) > 90 THEN 90 ELSE Len(full)
           /\ name = SubSeq(full, 1, Len(name))

\* a task id of 151 characters ending in a slash gave a name of 90
\* characters
C24_Witness ==
    /\ pc = "named"
    /\ Len(request.task) = 151
    /\ request.task[151] = "/"
    /\ request.task[1] = "a"
    /\ Len(loc.repo_name) = 90

\* C33: whatever the length of the task id, the name holds the whole hash
\* of the brief, all 8 characters, after the cleaned task id and its '-':
\* the cut never falls inside the hash.
C33_FingerprintWhole ==
    pc = "named" =>
        LET name == loc.repo_name
            first == Len(clean_task_chars(request.task)) + 2
        IN /\ first + 7 <= Len(name)
           /\ SubSeq(name, first, first + 7) = request.hash

(***************************************************************************)
(* CodeGenerator.generate_app, called directly.                            *)
(***************************************************************************)
MaxAttachments == 2

\* one entry of the attachment list: a dict whose 'url' is a data URI with
\* base64 content, with plain content, without a comma, with content that
\* is no base64, with bytes that are no UTF-8; a dict with another URL;
\* a dict without 'url'; a dict whose 'url' is no str (null, a number); an
\* entry that is no dict (a str)
AttachmentKinds ==
    {"data_base64", "data_plain", "data_no_comma", "data_bad_base64",
     "data_not_utf8", "http_url", "no_url", "url_not_str", "not_a_dict"}

\* lines 104-124 for one attachment: a description, nothing, or an
\* exception that leaves the loop
process_attachment(kind) ==
    CASE kind = "not_a_dict" -> Raised("AttributeError")     \* line 105
      [] kind = "url_not_str" -> Raised("AttributeError")    \* line 109
      [] kind \in {"http_url", "no_url"} -> Value(<<>>)
      [] kind \in {"data_no_comma", "data_bad_base64", "data_not_utf8"} ->
            Value(<<"Could not process attachment">>)        \* lines 122-124
      [] OTHER -> Value(<<"File">>)

\* lines 98-126
RECURSIVE process_attachments(_)
process_attachments(attachments) ==
    IF attachments = <<>> THEN Value(<<>>)
    ELSE LET first == process_attachment(Head(attachments))
             rest == process_attachments(Tail(attachments))
         IN IF first.kind = "raise" THEN first
            ELSE IF rest.kind = "raise" THEN rest
            ELSE Value(first.value \o rest.value)

\* a JSON value the model put under a key
Text(empty, html_tag, body_tag) ==
    [type |-> "str", empty |-> empty, html_tag |-> html_tag,
     body_tag |-> body_tag]
Prose == Text(FALSE, FALSE, FALSE)
Page == Text(FALSE, TRUE, TRUE)
Number == [type |-> "int", empty |-> FALSE, html_tag |-> FALSE,
           body_tag |-> FALSE]

\* what chat.completions.create does: it raises, its message has no
\* content, or the content is text that (the fences removed) is no JSON, a
\* JSON list, or a JSON object
LlmAnswers ==
    {[kind |-> "raises"], [kind |-> "content_none"], [kind |-> "not_json"],
     [kind |-> "json_list"],
     [kind |-> "object", json |-> [html |-> Page, readme |-> Prose,
                                   license |-> Prose]],
     [kind |-> "object", json |-> [html |-> Page, readme |-> Prose]],
     [kind |-> "object", json |-> [html |-> Page,
                                   readme |-> Text(TRUE, FALSE, FALSE),
                                   license |-> Prose]],
     [kind |-> "object", json |-> [html |-> Number, readme |-> Prose,
                                   license |-> Prose]],
     [kind |-> "object", json |-> [html |-> Text(FALSE, TRUE, FALSE),
                                   readme |-> Prose, license |-> Prose]],
     [kind |-> "object", json |-> [html |-> Text(FALSE, FALSE, TRUE),
                                   readme |-> Prose, license |-> Prose]]}

required_keys == <<"html", "readme", "license">>

\* lines 191-204: True, or ValueError
validate_generated_content(content) ==
    /\ \A i \in 1..Len(required_keys) :
        /\ required_keys[i] \in DOMAIN content
        /\ ~content[required_keys[i]].empty
        /\ content[required_keys[i]].type = "str"
    /\ content.html.html_tag /\ content.html.body_tag

\* lines 206-289
get_fallback_template == [html |-> Page, readme |-> Prose, license |-> Prose]

\* lines 34-86: the attachments are processed before the try; inside it a
\* failure of the call, of the parse or of the validation gives the
\* fallback template
generate_app(attachments, answer) ==
    IF process_attachments(attachments).kind = "raise"
    THEN process_attachments(attachments)
    ELSE IF answer.kind = "object" /\ validate_generated_content(answer.json)
    THEN Value(answer.json)
    ELSE Value(get_fallback_template)

AttachmentLists ==
    UNION {[1..n -> AttachmentKinds] : n \in 0..MaxAttachments}

InitGen ==
    /\ repos = <<>> /\ files = <<>> /\ pages = {} /\ commits = 0
    /\ username = "" /\ browser = FALSE
    /\ gpc = "idle"
    /\ g = g0
    /\ gret = NoRet
    /\ http = <<>>
    /\ \E attachments \in AttachmentLists, answer \in LlmAnswers :
        drv = [n |-> 0, created |-> {}, attachments |-> attachments,
               answer |-> answer, ret |-> NoRet]
    /\ pc = "off"
    /\ request = [present |-> Range(RequiredFields), task |-> "task-a",
                  checks |-> <<>>]
    /\ loc = loc0
    /\ calls = <<>>
    /\ outcome = [status |-> "none"]
    /\ db = [tasks |-> 0, repos |-> <<>>, results |-> <<>>, faults |-> 0]
    /\ notif = [attempt |-> 0, posts |-> 0, uniform |-> TRUE, last |-> Exc,
                slept |-> <<>>]
    /\ evaluator = ev0
    /\ poll = poll0

DirectGenerate ==
    /\ drv.ret = NoRet
    /\ drv' = [drv EXCEPT !.ret = generate_app(drv.attachments, drv.answer)]
    /\ UNCHANGED <<repos, files, pages, commits, username, gpc, g, gret, http,
                   evaluator, poll, orch>>

NextGen == DirectGenerate

SpecGen == InitGen /\ [][NextGen]_vars

\* C26: generate_app never raises: whatever the attachments and whatever the
\* model call does, it returns html, readme and license, each a non-empty
\* str, the html holding '<html'.
C26_GenerateNeverRaises ==
    drv.ret # NoRet =>
        /\ drv.ret.kind = "value"
        /\ DOMAIN drv.ret.value = {"html", "readme", "license"}
        /\ \A k \in DOMAIN drv.ret.value :
            drv.ret.value[k].type = "str" /\ ~drv.ret.value[k].empty
        /\ drv.ret.value.html.html_tag

(***************************************************************************)
(* GitHubManager._make_api_request, one attempt at a time.                 *)
(***************************************************************************)
\* lines 249-250
api_max_retries == 3
retry_delay == 1

\* int(time.time()) at line 266
Now == 1762272000

\* X-RateLimit-Reset of a rate-limit response: absent (0), or a second
\* before, at or after the present one
Resets ==
    {0, Now - 10, Now - 9, Now + 50, Now + 3589, Now + 3590, Now + 7200}

\* what one attempt meets: requests raises a RequestException, or a response
\* arrives; rate_limit: its status is 403 and its text holds 'rate limit'
Transport == [kind |-> "exception"]
Response(status, rate_limit, reset) ==
    [kind |-> "response", status |-> status, rate_limit |-> rate_limit,
     reset |-> reset]
Attempts ==
    {Transport, Response(200, FALSE, 0), Response(404, FALSE, 0),
     Response(403, FALSE, 0)}
        \cup {Response(403, TRUE, reset) : reset \in Resets}

\* line 267
wait_time(reset_time, current_time) == reset_time - current_time + 10

\* a wait of one hour is slept too
sleeps_for_up_to_an_hour(w) == w > 0 /\ w <= 3600

\* line 269
sleeps_for(w) == w > 0 /\ w < 3600

\* lines 264-272: the response is a rate-limit signal that is waited for
handled(a) ==
    /\ a.kind = "response"
    /\ a.rate_limit
    /\ sleeps_for(wait_time(a.reset, Now))

\* a delay that does not grow
backoff_constant(attempt) == retry_delay

\* line 280
backoff(attempt) == retry_delay * (2 ^ attempt)

MethodNames == {"GET", "POST", "PUT", "DELETE"}

\* the wrapper at rest
w0 ==
    [pc |-> "idle", method |-> "GET", attempt |-> 0, met |-> <<>>,
     slept |-> <<>>, ret |-> NoRet]

Sleep(why, seconds) == [why |-> why, seconds |-> seconds]

InitRequest ==
    /\ repos = <<>> /\ files = <<>> /\ pages = {} /\ commits = 0
    /\ username = "" /\ browser = FALSE
    /\ gpc = "idle"
    /\ g = g0
    /\ gret = NoRet
    /\ http = <<>>
    /\ drv = [n |-> 0, created |-> {}, w |-> w0]
    /\ pc = "off"
    /\ request = [present |-> Range(RequiredFields), task |-> "task-a",
                  checks |-> <<>>]
    /\ loc = loc0
    /\ calls = <<>>
    /\ outcome = [status |-> "none"]
    /\ db = [tasks |-> 0, repos |-> <<>>, results |-> <<>>, faults |-> 0]
    /\ notif = [attempt |-> 0, posts |-> 0, uniform |-> TRUE, last |-> Exc,
                slept |-> <<>>]
    /\ evaluator = ev0
    /\ poll = poll0

\* a call of _make_api_request(method, url, data)
DirectRequest ==
    /\ drv.w.pc = "idle" /\ drv.w.ret = NoRet
    /\ \E method \in MethodNames :
        drv' = [drv EXCEPT !.w = [w0 EXCEPT !.pc = "send", !.method = method]]
    /\ UNCHANGED <<repos, files, pages, commits, username, gpc, g, gret, http,
                   evaluator, poll, orch>>

\* lines 252-282: one turn of the loop
ReqAttempt ==
    /\ drv.w.pc = "send"
    /\ drv.w.attempt < api_max_retries
    /\ LET w == drv.w IN
       IF w.method \notin {"GET", "POST", "PUT"}
       THEN drv' = [drv EXCEPT !.w.pc = "idle",
                               !.w.ret = Raised("ValueError")]
       ELSE \E a \in Attempts :
            drv' = [drv EXCEPT !.w =
                CASE a.kind = "exception"
                        /\ w.attempt < api_max_retries - 1 ->
                        [w EXCEPT !.met = Append(@, a),
                                  !.slept = Append(@,
                                      Sleep("transport", backoff(w.attempt))),
                                  !.attempt = @ + 1]
                  [] a.kind = "exception" ->
                        [w EXCEPT !.met = Append(@, a), !.pc = "idle",
                                  !.ret = Raised("API request failed")]
                  [] handled(a) ->
                        [w EXCEPT !.met = Append(@, a),
                                  !.slept = Append(@,
                                      Sleep("rate_limit",
                                            wait_time(a.reset, Now))),
                                  !.attempt = @ + 1]
                  [] OTHER ->
                        [w EXCEPT !.met = Append(@, a), !.pc = "idle",
                                  !.ret = Value(a)]]
    /\ UNCHANGED <<repos, files, pages, commits, username, gpc, g, gret, http,
                   evaluator, poll, orch>>

\* line 285: the loop ended without a return
ReqExhausted ==
    /\ drv.w.pc = "send"
    /\ drv.w.attempt = api_max_retries
    /\ drv' = [drv EXCEPT !.w.pc = "idle",
                          !.w.ret = Raised("Unexpected error in API request")]
    /\ UNCHANGED <<repos, files, pages, commits, username, gpc, g, gret, http,
                   evaluator, poll, orch>>

NextRequest == DirectRequest \/ ReqAttempt \/ ReqExhausted

SpecRequest == InitRequest /\ [][NextRequest]_vars

(***************************************************************************)
(* Properties of _make_api_request (SpecRequest).                          *)
(***************************************************************************)
\* the call of the wrapper ended
RequestEnded == drv.w.pc = "idle" /\ drv.w.ret # NoRet

\* a rate-limit response whose wait lies strictly between 0 and 3600 s
RateLimitWaited(a) ==
    /\ a.kind = "response" /\ a.rate_limit
    /\ 0 < a.reset - Now + 10 /\ a.reset - Now + 10 < 3600

\* C28: one call issues at most 3 HTTP requests, transport failures and
\* rate-limit retries together; the k-th request failing in transport,
\* k < 3, is followed by a sleep of 2^(k-1) s (1 s, 2 s) and another
\* request; a transport failure of the third raises; only a transport
\* failure or a rate-limit signal that was waited for is followed by
\* another request; the first other response is returned.
C28_RequestAttempts ==
    LET w == drv.w
        n == Len(w.met)
    IN /\ n <= 3
       /\ w.attempt = Len(w.slept)
       /\ \A k \in 1..n :
            /\ (w.met[k].kind = "exception" /\ k < 3) =>
                    /\ Len(w.slept) >= k
                    /\ w.slept[k] = Sleep("transport", 2 ^ (k - 1))
                    /\ RequestEnded => k < n \/ w.ret.kind = "raise"
            /\ k < n =>
                    w.met[k].kind = "exception" \/ RateLimitWaited(w.met[k])
            /\ (w.met[k].kind = "response" /\ ~RateLimitWaited(w.met[k])) =>
                    /\ k = n
                    /\ w.ret = Value(w.met[k])
       /\ (n = 3 /\ w.met[3].kind = "exception") <=>
                w.ret = Raised("API request failed")
       /\ w.ret.kind = "value" => (n >= 1 /\ w.ret.value = w.met[n])
       /\ (w.pc = "send" /\ w.attempt < 3) => n = w.attempt

\* three requests failed in transport: the call slept 1 s and 2 s and raised
C28_Witness ==
    /\ RequestEnded
    /\ Len(drv.w.met) = 3
    /\ \A k \in 1..3 : drv.w.met[k].kind = "exception"
    /\ drv.w.slept = <<Sleep("transport", 1), Sleep("transport", 2)>>
    /\ drv.w.ret = Raised("API request failed")

\* C29: every rate-limit signal with a reset within the hour is slept for
\* and then followed by one more request, whose response is what the call
\* returns; no sleep for a rate-limit reset ends the call without another
\* request.
C29_SleepThenRetry ==
    RequestEnded =>
        \A k \in 1..Len(drv.w.met) :
            RateLimitWaited(drv.w.met[k]) =>
                /\ k < Len(drv.w.met)
                /\ drv.w.slept[k].why = "rate_limit"
                /\ drv.w.ret = Value(drv.w.met[k + 1])

\* C30: a rate-limit response whose wait (reset - now + 10) is not strictly
\* between 0 and 3600 s is not slept for and is returned to the caller, no
\* request following it; every sleep for a rate limit lasts the wait of the
\* response it follows, more than 0 and less than 3600 s.
C30_RateLimitWaitBounded ==
    LET w == drv.w
        n == Len(w.met)
    IN /\ \A k \in 1..n :
            (/\ w.met[k].kind = "response" /\ w.met[k].rate_limit
             /\ ~(0 < w.met[k].reset - Now + 10
                    /\ w.met[k].reset - Now + 10 < 3600)) =>
                /\ k = n
                /\ Len(w.slept) = k - 1
                /\ w.ret = Value(w.met[k])
       /\ \A j \in 1..Len(w.slept) :
            w.slept[j].why = "rate_limit" =>
                /\ w.met[j].kind = "response" /\ w.met[j].rate_limit
                /\ w.slept[j].seconds = w.met[j].reset - Now + 10
                /\ w.slept[j].seconds > 0
                /\ w.slept[j].seconds < 3600

\* a rate-limit response whose wait is exactly 3600 s was returned at once
C30_Witness ==
    /\ RequestEnded
    /\ Len(drv.w.met) = 1
    /\ drv.w.met[1] = Response(403, TRUE, Now + 3590)
    /\ drv.w.slept = <<>>
    /\ drv.w.ret = Value(drv.w.met[1])

(***************************************************************************)
(* Two concurrent runs of process_deployment.  app.py builds one           *)
(* GitHubManager, one AppEvaluator and one DeploymentProcessor (44-58) and *)
(* serves requests on threads (threaded=True, 346), so the runs share the  *)
(* provider, the cached user name and the browser.  A run is followed from *)
(* the naming of its repository to the end of its evaluation; drv holds    *)
(* the two runs, each with the contexts it opened, and the browsers        *)
(* launched; http is the log of the requests GET /user.                    *)
(***************************************************************************)
Runs == {1, 2}

\* int(time.time()) of two requests that arrive together: one second and
\* the next
Ticks == {1762272000, 1762272001}

\* a short task id and one longer than the name may be
SharedTasks == {<<"a">>, Repeat("a", 90)}

run0(task, hash, timestamp) ==
    [pc |-> "name", task |-> task, hash |-> hash, timestamp |-> timestamp,
     repo_name |-> <<>>, after |-> "none", contexts |-> <<>>, ctx |-> 0,
     error |-> "none"]

InitShared ==
    /\ repos = <<>>
    /\ files = <<>>
    /\ pages = {}
    /\ commits = 0
    /\ username = ""
    /\ gpc = "idle"
    /\ g = g0
    /\ gret = NoRet
    /\ http = <<>>
    /\ \E t1 \in SharedTasks, t2 \in SharedTasks, h2 \in Hashes, s2 \in Ticks :
        drv = [runs |-> <<run0(t1, <<"d", "4", "1", "d", "8", "c", "d", "9">>,
                               1762272000),
                          run0(t2, h2, s2)>>,
               launches |-> 0, engine |-> 0]
    /\ pc = "off"
    /\ request = [present |-> Range(RequiredFields), task |-> "task-a",
                  checks |-> <<>>]
    /\ loc = loc0
    /\ calls = <<>>
    /\ outcome = [status |-> "none"]
    /\ db = [tasks |-> 0, repos |-> <<>>, results |-> <<>>, faults |-> 0]
    /\ notif = [attempt |-> 0, posts |-> 0, uniform |-> TRUE, last |-> Exc,
                slept |-> <<>>]
    /\ browser = FALSE
    /\ evaluator = ev0
    /\ poll = poll0

shared_rest ==
    <<gpc, g, gret, pc, request, loc, calls, outcome, db, notif, browser,
      evaluator, poll>>

\* run i goes to pc 'to'
Goto(i, to) == drv' = [drv EXCEPT !.runs[i].pc = to]

\* an exception that leaves process_deployment's or _perform_evaluation's try
RunFail(i, error) ==
    drv' = [drv EXCEPT !.runs[i].pc = "done", !.runs[i].error = error]

\* line 83
RunName(i) ==
    /\ drv.runs[i].pc = "name"
    /\ drv' = [drv EXCEPT
            !.runs[i].pc = "create",
            !.runs[i].repo_name =
                repo_name_chars(drv.runs[i].task, drv.runs[i].hash,
                                drv.runs[i].timestamp)]
    /\ UNCHANGED <<repos, files, pages, commits, username, http, shared_rest>>

\* create_repository, lines 72-84: POST /user/repos answered 201 for a new
\* name and 422 for one that exists, which leads to _get_repository
RunCreate(i) ==
    /\ drv.runs[i].pc = "create"
    /\ LET name == drv.runs[i].repo_name
           st == IF name \in RepoSet THEN 422 ELSE 201 IN
        /\ IF create_repository_on(st) = "return"
           THEN /\ repos' = Append(repos, name)
                /\ Goto(i, "upload")
           ELSE /\ UNCHANGED repos
                /\ Goto(i, "lookup")
    /\ UNCHANGED <<files, pages, commits, username, http, shared_rest>>

\* where a method goes on once get_username has returned
after_username(at) ==
    CASE at = "lookup" -> "lookup_get"
      [] at = "upload" -> "upload_put"
      [] at = "enable" -> "pages_post"

\* get_username, lines 38-39: the test of the cache
RunUserCheck(i) ==
    /\ drv.runs[i].pc \in {"lookup", "upload", "enable"}
    /\ IF username # ""
       THEN Goto(i, after_username(drv.runs[i].pc))
       ELSE drv' = [drv EXCEPT
                !.runs[i].pc = "user_get",
                !.runs[i].after = after_username(drv.runs[i].pc)]
    /\ UNCHANGED <<repos, files, pages, commits, username, http, shared_rest>>

\* get_username, lines 41-47: the request and the assignment of the cache
RunUserGet(i) ==
    /\ drv.runs[i].pc = "user_get"
    /\ \E st \in UserStatuses :
        /\ http' = Append(http,
                Req("GET /user", drv.runs[i].repo_name, "", 0, st))
        /\ IF st = 200
           THEN /\ username' = Login
                /\ Goto(i, drv.runs[i].after)
           ELSE /\ UNCHANGED username
                /\ RunFail(i, "Failed to get username")
    /\ UNCHANGED <<repos, files, pages, commits, shared_rest>>

\* _get_repository, lines 105-110: the repository exists, its URL is returned
RunLookupGet(i) ==
    /\ drv.runs[i].pc = "lookup_get"
    /\ drv.runs[i].repo_name \in RepoSet
    /\ Goto(i, "upload")
    /\ UNCHANGED <<repos, files, pages, commits, username, http, shared_rest>>

\* upload_files: index.html written with the content of run i
RunUploadPut(i) ==
    /\ drv.runs[i].pc = "upload_put"
    /\ files' = PutFile(drv.runs[i].repo_name, "index.html", i)
    /\ commits' = commits + 1
    /\ Goto(i, "enable")
    /\ UNCHANGED <<repos, pages, username, http, shared_rest>>

\* enable_pages: 201 for a repository without a site, 409 for one with it
RunPagesPost(i) ==
    /\ drv.runs[i].pc = "pages_post"
    /\ pages' = pages \cup {drv.runs[i].repo_name}
    /\ Goto(i, "eval")
    /\ UNCHANGED <<repos, files, commits, username, http, shared_rest>>

\* _perform_evaluation, line 343: the test of self.evaluator.browser
RunEvalCheck(i) ==
    /\ drv.runs[i].pc = "eval"
    /\ Goto(i, IF drv.engine = 0 THEN "setup" ELSE "wait")
    /\ UNCHANGED <<repos, files, pages, commits, username, http, shared_rest>>

\* AppEvaluator.setup, lines 29-35: a browser is launched and assigned to
\* self.browser, whatever that held
RunSetup(i) ==
    /\ drv.runs[i].pc = "setup"
    /\ drv' = [drv EXCEPT !.runs[i].pc = "wait",
                          !.launches = @ + 1,
                          !.engine = drv.launches + 1]
    /\ UNCHANGED <<repos, files, pages, commits, username, http, shared_rest>>

\* a context of the browser in use, opened in the named call
Context(call, engine) ==
    [call |-> call, engine |-> engine, open |-> TRUE, path |-> "none"]

\* new_context and new_page before the try (424-425, 74-80): both succeed,
\* new_context raises, or new_page raises with the context open
Open(i, call, next) ==
    \E r \in {"ok", "new_context_raised", "new_page_raised"} :
        CASE r = "ok" ->
                drv' = [drv EXCEPT
                    !.runs[i].contexts = Append(@, Context(call, drv.engine)),
                    !.runs[i].ctx = Len(drv.runs[i].contexts) + 1,
                    !.runs[i].pc = next]
          [] r = "new_context_raised" -> RunFail(i, "evaluation_error")
          [] r = "new_page_raised" ->
                drv' = [drv EXCEPT
                    !.runs[i].contexts = Append(@,
                        [Context(call, drv.engine)
                            EXCEPT !.path = "new_page_raised"]),
                    !.runs[i].pc = "done",
                    !.runs[i].error = "evaluation_error"]

\* a call that closes page and context only where its try ends normally
closes_at_end_of_try(path) == path \in {"available", "success"}

\* finally: page.close(); context.close() (118-121, 445-447) on every way
\* out of the try
closes(path) ==
    path \in {"available", "timeout", "success", "load_failure"}

\* the way out of the try of run i's call, and its finally
Close(i, paths, next) ==
    \E path \in paths :
        drv' = [drv EXCEPT
            !.runs[i].contexts[drv.runs[i].ctx].open = ~closes(path),
            !.runs[i].contexts[drv.runs[i].ctx].path = path,
            !.runs[i].ctx = 0,
            !.runs[i].pc = next]

\* wait_for_pages_availability, lines 421-425
RunWaitOpen(i) ==
    /\ drv.runs[i].pc = "wait"
    /\ drv.engine # 0
    /\ Open(i, "wait_for_pages_availability", "wait_end")
    /\ UNCHANGED <<repos, files, pages, commits, username, http, shared_rest>>

\* lines 429-447: the site answered 200, or max_wait_time passed
RunWaitEnd(i) ==
    /\ drv.runs[i].pc = "wait_end"
    /\ Close(i, {"available", "timeout"}, "evaluate")
    /\ UNCHANGED <<repos, files, pages, commits, username, http, shared_rest>>

\* evaluate_app, lines 68-80
RunEvOpen(i) ==
    /\ drv.runs[i].pc = "evaluate"
    /\ IF drv.engine = 0
       THEN RunFail(i, "evaluation_error")
       ELSE Open(i, "evaluate_app", "evaluate_end")
    /\ UNCHANGED <<repos, files, pages, commits, username, http, shared_rest>>

\* lines 84-121: the checks ran, or the page did not load
RunEvEnd(i) ==
    /\ drv.runs[i].pc = "evaluate_end"
    /\ Close(i, {"success", "load_failure"}, "done")
    /\ UNCHANGED <<repos, files, pages, commits, username, http, shared_rest>>

NextShared ==
    \E i \in Runs :
        \/ RunName(i) \/ RunCreate(i)
        \/ RunUserCheck(i) \/ RunUserGet(i)
        \/ RunLookupGet(i) \/ RunUploadPut(i) \/ RunPagesPost(i)
        \/ RunEvalCheck(i) \/ RunSetup(i)
        \/ RunWaitOpen(i) \/ RunWaitEnd(i)
        \/ RunEvOpen(i) \/ RunEvEnd(i)

SpecShared == InitShared /\ [][NextShared]_vars

(***************************************************************************)
(* Properties of two concurrent runs (SpecShared).                         *)
(***************************************************************************)
Named(i) == drv.runs[i].pc # "name"

\* C34: two concurrent runs have different repository names, and so never
\* create, write to or enable the site of the same repository.
C34_DistinctNames ==
    (Named(1) /\ Named(2)) => drv.runs[1].repo_name # drv.runs[2].repo_name

\* C35: however the runs interleave, the browser is launched at most once
\* (setup never runs while a browser is held), and every context was
\* opened from a launched browser.
C35_OneEngine ==
    /\ drv.launches <= 1
    /\ \A i \in Runs : \A k \in DOMAIN drv.runs[i].contexts :
        drv.runs[i].contexts[k].engine # 0

\* the positions in the log of the requests GET /user answered 200
Lookups == {k \in DOMAIN http : http[k].req = "GET /user"
                                /\ http[k].status = 200}

\* C36: however the calls interleave, at most one GET /user is answered
\* 200, no GET /user is sent after one that was, the cache holds nothing
\* or the login, and it is empty as long as no lookup succeeded.
C36_PopulatedOnce ==
    /\ Cardinality(Lookups) <= 1
    /\ \A k \in DOMAIN http :
        http[k].req = "GET /user" => \A l \in Lookups : k <= l
    /\ username \in {"", Login}
    /\ Lookups = {} => username = ""

\* the ways out of the try of wait_for_pages_availability and evaluate_app
TryPaths == {"available", "timeout", "success", "load_failure"}

RequestChecks == {<<>>, <<Expr_element>>, <<NotStr>>}

Requests ==
    [present : SUBSET Range(RequiredFields),
     task : Tasks,
     checks : RequestChecks]

\* what an earlier run under the same repository name left at the provider
EarlierFiles(name) ==
    [k \in {name} \X {"index.html", "README.md", "LICENSE",
                      "deployment-info.json"} |->
        [content |-> "earlier",
         sha |-> CASE k[2] = "index.html" -> 2
                   [] k[2] = "README.md" -> 3
                   [] k[2] = "LICENSE" -> 4
                   [] OTHER -> 5]]

\* the process and the account before the run: a fresh process and no
\* repository; the same process after an earlier run; a restarted process
\* after an earlier run
Init ==
    /\ request \in Requests
    /\ LET name == generate_repo_name(request.task, Brief, 0) IN
       \/ /\ repos = <<>> /\ files = <<>> /\ pages = {} /\ commits = 0
          /\ username = "" /\ browser = FALSE
       \/ /\ repos = <<name>> /\ files = EarlierFiles(name)
          /\ pages = {name} /\ commits = 5
          /\ username = Login /\ browser = TRUE
       \/ /\ repos = <<name>> /\ files = EarlierFiles(name)
          /\ pages = {name} /\ commits = 5
          /\ username = "" /\ browser = FALSE
    /\ gpc = "idle"
    /\ g = g0
    /\ gret = NoRet
    /\ http = <<>>
    /\ drv = [n |-> 0, created |-> {}]
    /\ pc = "start"
    /\ loc = loc0
    /\ calls = <<>>
    /\ outcome = [status |-> "none"]
    /\ db = [tasks |-> 0, repos |-> <<>>, results |-> <<>>, faults |-> 0]
    /\ notif = [attempt |-> 0, posts |-> 0, uniform |-> TRUE, last |-> Exc,
                slept |-> <<>>]
    /\ evaluator = ev0
    /\ poll = poll0

Next ==
    \/ Validate \/ StoreTask \/ GenerateApp
    \/ CallCreate \/ RetCreate
    \/ CallUpload \/ RetUpload
    \/ CallPages \/ RetPages
    \/ StoreRepoInfo \/ NotifyPost
    \/ EvalSetup \/ EvalWait \/ EvalWaitBack \/ EvalRun \/ EvalRunBack
    \/ Persist \/ Finish
    \/ Publisher \/ Poller \/ Evaluator

Spec == Init /\ [][Next]_vars

(***************************************************************************)
(* app.py: the handler of POST /api/deploy in front of process_deployment. *)
(***************************************************************************)
\* what the client posted: the Content-Type, the body (text that is no
\* JSON, null, a JSON array, a JSON object), and for an object its 'secret',
\* the required keys it holds, whether its 'brief' is a str, its 'checks'
Posts ==
    [is_json : BOOLEAN, body : {"object"},
     secret : {"match", "wrong", "absent"},
     present : SUBSET Range(RequiredFields),
     brief_is_str : BOOLEAN, checks : RequestChecks]
    \cup [is_json : BOOLEAN, body : {"malformed", "null", "array"},
          secret : {"absent"}, present : {{}}, brief_is_str : {TRUE},
          checks : {<<>>}]

\* jsonify({'error': ...}), status
ErrorResponse(status, error, detail) ==
    [kind |-> "value", status |-> status, error |-> error, detail |-> detail]

Invoke == [kind |-> "invoke"]

\* the required keys the body lacks, in the order of required_fields
missing_fields(present) ==
    SelectSeq(RequiredFields, LAMBDA field : field \notin present)

\* a handler that does not compare the secret
deploy_on_any_secret(post) ==
    CASE ~post.is_json ->
            ErrorResponse(400, "Content-Type must be application/json", <<>>)
      [] post.body = "malformed" ->
            ErrorResponse(400, "Invalid JSON format", <<>>)
      [] post.body = "null" ->
            ErrorResponse(400, "No JSON data provided", <<>>)
      [] post.body = "array" ->
            ErrorResponse(500, "Internal server error", <<"AttributeError">>)
      [] missing_fields(post.present) # <<>> ->
            ErrorResponse(400, "Missing required fields",
                          missing_fields(post.present))
      [] ~post.brief_is_str ->
            ErrorResponse(500, "Internal server error", <<"TypeError">>)
      [] OTHER -> Invoke

\* lines 155-193: the answer given before process_deployment is called, or
\* the call
deploy_on(post) ==
    CASE ~post.is_json ->
            ErrorResponse(400, "Content-Type must be application/json", <<>>)
      [] post.body = "malformed" ->
            ErrorResponse(400, "Invalid JSON format", <<>>)
      [] post.body = "null" ->
            ErrorResponse(400, "No JSON data provided", <<>>)
      [] post.body = "array" ->
            ErrorResponse(500, "Internal server error", <<"AttributeError">>)
      [] post.secret # "match" ->
            ErrorResponse(403, "Invalid secret", <<>>)
      [] missing_fields(post.present) # <<>> ->
            ErrorResponse(400, "Missing required fields",
                          missing_fields(post.present))
      [] ~post.brief_is_str ->
            ErrorResponse(500, "Internal server error", <<"TypeError">>)
      [] OTHER -> Invoke

InitApi ==
    /\ repos = <<>> /\ files = <<>> /\ pages = {} /\ commits = 0
    /\ username = "" /\ browser = FALSE
    /\ gpc = "idle"
    /\ g = g0
    /\ gret = NoRet
    /\ http = <<>>
    /\ \E post \in Posts :
        drv = [n |-> 0, created |-> {}, post |-> post, invoked |-> FALSE,
               response |-> NoRet]
    /\ pc = "off"
    /\ request = [present |-> {}, task |-> "task-a", checks |-> <<>>]
    /\ loc = loc0
    /\ calls = <<>>
    /\ outcome = [status |-> "none"]
    /\ db = [tasks |-> 0, repos |-> <<>>, results |-> <<>>, faults |-> 0]
    /\ notif = [attempt |-> 0, posts |-> 0, uniform |-> TRUE, last |-> Exc,
                slept |-> <<>>]
    /\ evaluator = ev0
    /\ poll = poll0

\* lines 145-193: the request is answered, or process_deployment is called
\* with its body
Deploy ==
    /\ pc = "off"
    /\ drv.response = NoRet
    /\ IF deploy_on(drv.post) = Invoke
       THEN /\ drv' = [drv EXCEPT !.invoked = TRUE]
            /\ request' = [present |-> drv.post.present, task |-> "task-a",
                           checks |-> drv.post.checks]
            /\ pc' = "start"
       ELSE /\ drv' = [drv EXCEPT !.response = deploy_on(drv.post)]
            /\ UNCHANGED <<request, pc>>
    /\ UNCHANGED <<repos, files, pages, commits, username, gpc, g, gret, http,
                   evaluator, poll, loc, calls, outcome, db, notif, browser>>

\* lines 195-205: the outcome of process_deployment is the answer
Respond ==
    /\ pc = "done"
    /\ drv.response = NoRet
    /\ drv' = [drv EXCEPT !.response =
                [kind |-> "value",
                 status |-> IF outcome.status = "success" THEN 200 ELSE 500,
                 result |-> outcome]]
    /\ UNCHANGED <<repos, files, pages, commits, username, gpc, g, gret, http,
                   evaluator, poll, orch>>

NextApi == Deploy \/ Respond \/ Next

SpecApi == InitApi /\ [][NextApi]_vars

\* the request was answered without a call of process_deployment
Rejected == drv.response.kind = "value" /\ ~drv.invoked

\* C25: a POST that is not JSON (by its Content-Type, or by its body) is
\* answered 400; a JSON object whose secret is absent or differs is answered
\* 403; a JSON object with the secret that lacks a required key is answered
\* 400 with 'Missing required fields' and the keys; and whenever a request
\* is answered without process_deployment having been called, nothing was
\* done: no database call, no provider request, no repository, no
\* notification. process_deployment is called only for a JSON object with
\* the secret and every required key.
C25_RejectedBeforeOrchestrator ==
    LET post == drv.post
        answered == drv.response.kind = "value"
    IN /\ (answered /\ (~post.is_json \/ post.body \in {"malformed", "null"}))
            => (Rejected /\ drv.response.status = 400)
       /\ (answered /\ post.is_json /\ post.body = "object"
                /\ post.secret # "match")
            => (Rejected /\ drv.response.status = 403)
       /\ (answered /\ post.is_json /\ post.body = "object"
                /\ post.secret = "match"
                /\ post.present # Range(RequiredFields))
            => /\ Rejected
               /\ drv.response.status = 400
               /\ drv.response.error = "Missing required fields"
               /\ Range(drv.response.detail)
                    = Range(RequiredFields) \ post.present
       /\ drv.invoked =>
            /\ post.is_json /\ post.body = "object" /\ post.secret = "match"
            /\ post.present = Range(RequiredFields)
       /\ ~drv.invoked =>
            /\ pc = "off"
            /\ calls = <<>> /\ http = <<>>
            /\ gpc = "idle" /\ g = g0
            /\ db = [tasks |-> 0, repos |-> <<>>, results |-> <<>>,
                     faults |-> 0]
            /\ repos = <<>> /\ notif.posts = 0

\* a request with the secret that holds only 'email' was answered 400, the
\* five other keys named
C25_Witness ==
    /\ Rejected
    /\ drv.post.is_json /\ drv.post.body = "object"
    /\ drv.post.secret = "match"
    /\ drv.post.present = {"email"}
    /\ drv.response.status = 400
    /\ drv.response.detail
            = <<"task", "round", "nonce", "brief", "evaluation_url">>

(***************************************************************************)
(* Properties of process_deployment (Spec).                                *)
(***************************************************************************)
Missing == Range(RequiredFields) \ request.present
Events == Range(calls)
Called(step) == Ev(step, "call") \in Events
CompletedOk(step) == Ev(step, "ret") \in Events
RaisedIn(step) == Ev(step, "raise") \in Events
db0 == [tasks |-> 0, repos |-> <<>>, results |-> <<>>, faults |-> 0]

\* a report of evaluate_app for these checks
IsReport(report, checks) ==
    \/ report = <<page_load_error>>
    \/ /\ Len(report) = Len(checks) + 3
       /\ \A i \in 1..Len(report) :
            /\ report[i].score = (IF report[i].passed THEN 1 ELSE 0)
            /\ report[i].check =
                    IF i <= Len(checks) THEN checks[i]
                    ELSE Str(<< <<"auto_has_title">>,
                                <<"auto_has_viewport_meta">>,
                                <<"auto_no_js_errors">> >>[i - Len(checks)])

\* C1: with a required key missing, the run ends with an error outcome that
\* names a missing key, and no collaborator was called: no database call, no
\* generation, no provider request, no notification, no browser call.
C1_ValidationFirst ==
    Missing # {} =>
        /\ pc \in {"start", "done"}
        /\ calls = <<>> /\ http = <<>>
        /\ gpc = "idle" /\ g = g0
        /\ db = db0 /\ notif.posts = 0
        /\ pc = "done" =>
            /\ outcome.status = "error"
            /\ outcome.error.msg = "Missing required field"
            /\ outcome.error.detail \in Missing
            /\ DOMAIN outcome = {"status", "error"}

\* a request without 'nonce' was rejected, the error naming 'nonce'
C1_Witness ==
    /\ pc = "done"
    /\ Missing = {"nonce"}
    /\ outcome.status = "error"
    /\ outcome.error.detail = "nonce"

PipelineSteps ==
    <<"generate_app", "create_repository", "upload_files", "enable_pages",
      "notify", "wait_for_pages_availability", "evaluate_app">>
PipelineStepSet == Range(PipelineSteps)
StepEvents == SelectSeq(calls, LAMBDA e : e.step \in PipelineStepSet)

\* C2: the calls of the seven steps appear in program order, each at most
\* once, and each call is followed by its own return (or exception) before
\* the next step is called; a GitHubManager method runs only inside its call.
C2_StepOrder ==
    /\ LET se == StepEvents IN
        /\ Len(se) <= 2 * Len(PipelineSteps)
        /\ \A k \in 1..Len(se) :
            /\ se[k].step = PipelineSteps[(k + 1) \div 2]
            /\ (k % 2 = 1) => se[k].ev = "call"
            /\ (k % 2 = 0) => se[k].ev \in {"ret", "raise"}
    /\ gpc # "idle" =>
        /\ Len(calls) > 0
        /\ calls[Len(calls)] = Ev(g.op, "call")

\* a run went through all seven steps and succeeded
C2_Witness ==
    /\ pc = "done"
    /\ outcome.status = "success"
    /\ Len(StepEvents) = 2 * Len(PipelineSteps)

\* C3: an exception of generate_app, create_repository, upload_files or
\* enable_pages is the last call event of the run: no later step (no
\* notification, no evaluation) is called; the run ends with status 'error',
\* an error text and the elapsed time; what the run created at the provider
\* stays there.
C3_EarlyFailureAborts ==
    \A k \in 1..Len(calls) :
        (/\ calls[k].ev = "raise"
         /\ calls[k].step \in {"generate_app", "create_repository",
                               "upload_files", "enable_pages"}) =>
            /\ k = Len(calls)
            /\ pc = "done" /\ gpc = "idle"
            /\ ~Called("notify") /\ ~Called("evaluate_app")
            /\ notif.posts = 0 /\ db.repos = <<>> /\ db.results = <<>>
            /\ outcome.status = "error"
            /\ outcome.error.msg = "Deployment failed"
            /\ "deployment_time" \in DOMAIN outcome
            /\ \A j \in 1..Len(http) :
                /\ (http[j].req = "POST /user/repos" /\ http[j].status = 201)
                    => http[j].repo \in RepoSet
                /\ (http[j].req = "PUT /contents"
                        /\ http[j].status \in {200, 201})
                    => <<http[j].repo, http[j].path>> \in DOMAIN files

\* upload_files raised after the run had created the repository and written
\* a file: both are still at the provider
C3_Witness ==
    /\ pc = "done"
    /\ RaisedIn("upload_files")
    /\ \E j, k \in 1..Len(http) :
        /\ http[j].req = "POST /user/repos" /\ http[j].status = 201
        /\ http[k].req = "PUT /contents" /\ http[k].status = 201
        /\ <<http[k].repo, http[k].path>> \in DOMAIN files

\* C4: a 'success' outcome means create_repository, upload_files and
\* enable_pages returned in this run; it carries the provider's URL of the
\* repository, the URL enable_pages returned, the commit id of the last file
\* written (the provider's latest commit), the elapsed time and the report.
C4_SuccessOutcome ==
    (pc = "done" /\ outcome.status = "success") =>
        /\ CompletedOk("create_repository")
        /\ CompletedOk("upload_files")
        /\ CompletedOk("enable_pages")
        /\ loc.repo_name \in RepoSet
        /\ outcome.repo_url = RepoUrl(Login, loc.repo_name)
        /\ gret.kind = "value" /\ outcome.pages_url = gret.value
        /\ outcome.commit_sha = commits
        /\ outcome.commit_sha =
                files[<<loc.repo_name, loc.files[Len(loc.files)][1]>>].sha
        /\ "deployment_time" \in DOMAIN outcome
        /\ \/ outcome.evaluation_results = evaluation_error
           \/ IsReport(outcome.evaluation_results, request.checks)

\* a run that created its repository succeeded
C4_Witness ==
    /\ pc = "done"
    /\ outcome.status = "success"
    /\ \E j \in 1..Len(http) :
        http[j].req = "POST /user/repos" /\ http[j].status = 201
    /\ IsReport(outcome.evaluation_results, request.checks)

NotifyFailed == notif.posts > 0 /\ ~loc.notification_result.success
\* the evaluation step went as far as the browser allowed
EvaluationRan ==
    (~RaisedIn("setup") /\ ~RaisedIn("wait_for_pages_availability")) =>
        Called("wait_for_pages_availability") /\ Called("evaluate_app")

\* C5 as stated: after three attempts answered 500, or three attempts that
\* failed in transport, the notification result has success == false and an
\* error naming the last status code, evaluation runs and the run succeeds.
C5_AsStated ==
    (pc = "done" /\ notif.posts = 3 /\ notif.uniform
        /\ notif.last \in {500, Exc}) =>
        /\ ~loc.notification_result.success
        /\ "status_code" \in DOMAIN loc.notification_result.error
        /\ loc.notification_result.error.status_code = notif.last
        /\ EvaluationRan
        /\ outcome.status = "success"

\* C5: a failed notification never fails the run: after three failed
\* attempts the result has success == false; its error names the status code
\* of the last attempt when that attempt was answered, and is the exception
\* text without a status code when it failed in transport; evaluation runs
\* and the outcome is 'success'.
C5_NotifyNonFatal ==
    /\ (notif.posts > 0 /\ pc \notin {"notify"}) =>
            (NotifyFailed <=> (notif.posts = 3 /\ notif.last # 200))
    /\ (pc = "done" /\ NotifyFailed) =>
        /\ notif.last # Exc =>
            /\ loc.notification_result.error.kind = "HTTP"
            /\ loc.notification_result.error.status_code = notif.last
            /\ loc.notification_result.status_code = notif.last
        /\ notif.last = Exc =>
            /\ loc.notification_result.error.kind = "exception"
            /\ "status_code" \notin DOMAIN loc.notification_result.error
            /\ "status_code" \notin DOMAIN loc.notification_result
        /\ EvaluationRan
        /\ outcome.status = "success"
        /\ outcome.notification_result = loc.notification_result

\* every attempt failed in transport; the report was produced all the same
C5_Witness ==
    /\ pc = "done"
    /\ notif.posts = 3 /\ notif.uniform /\ notif.last = Exc
    /\ outcome.status = "success"
    /\ Called("evaluate_app")

\* C6: an exception of store_task, store_repo_info or
\* store_evaluation_result changes nothing: once the hosting is active the
\* run notifies, evaluates and returns 'success'.
C6_PersistenceSwallowed ==
    (pc = "done" /\ CompletedOk("enable_pages")) =>
        /\ outcome.status = "success"
        /\ Called("notify")
        /\ EvaluationRan

\* C7: once evaluate_app has returned, every result of the report is handed
\* to store_evaluation_result exactly once, in report order, whether or not
\* earlier stores raised; the rows stored are those whose store returned;
\* the report returned is the one evaluate_app gave.
C7_PersistEveryResult ==
    CompletedOk("evaluate_app") =>
        /\ Len(loc.attempted) = loc.pi - 1
        /\ Len(loc.attempted) <= Len(loc.evaluation_results)
        /\ \A i \in 1..Len(loc.attempted) :
            loc.attempted[i].check = loc.evaluation_results[i].check
        /\ LET stored == SelectSeq(loc.attempted, LAMBDA a : a.ok) IN
            db.results = [i \in 1..Len(stored) |-> stored[i].check]
        /\ IsReport(loc.evaluation_results, request.checks)
        /\ pc \in {"finish", "done"} =>
            Len(loc.attempted) = Len(loc.evaluation_results)
        /\ pc = "done" =>
            /\ outcome.status = "success"
            /\ outcome.evaluation_results = loc.evaluation_results

\* the first store raised and the last result was stored all the same
C7_Witness ==
    /\ pc = "done"
    /\ Len(loc.attempted) >= 3
    /\ ~loc.attempted[1].ok
    /\ loc.attempted[Len(loc.attempted)].ok
    /\ db.results # <<>>

\* C8: every activation request follows a successful write of a file to
\* the same repository in the same run.
C8_PagesAfterWrite ==
    \A k \in 1..Len(http) :
        http[k].req = "POST /pages" =>
            \E j \in 1..(k - 1) :
                /\ http[j].req = "PUT /contents"
                /\ http[j].repo = http[k].repo
                /\ http[j].status \in {200, 201}

\* hosting was activated
C8_Witness ==
    \E k \in 1..Len(http) : http[k].req = "POST /pages" /\ http[k].status = 201

\* the notifier returned to process_deployment
Notified == Ev("notify", "ret") \in Events

\* C12: a call of the notifier posts at most 3 times; no post follows a 200;
\* it returns success exactly when the last post was answered 200; it
\* returns a failure only after 3 posts, each answered with another status
\* or failed in transport, having slept between them; it never raises.
C12_NotifyAttempts ==
    /\ notif.posts <= 3
    /\ ~RaisedIn("notify")
    /\ (pc = "notify" /\ notif.posts > 0) =>
        /\ notif.last # 200
        /\ notif.posts < 3
        /\ ~Notified
    /\ (notif.posts > 0 /\ pc # "notify") => Notified
    /\ Notified =>
        /\ loc.notification_result.success <=> notif.last = 200
        /\ ~loc.notification_result.success => notif.posts = 3
        /\ "error" \in DOMAIN loc.notification_result
                <=> ~loc.notification_result.success
        /\ notif.slept = SubSeq(retry_delays, 1, notif.posts - 1)

\* the third post was answered 200 after two different failures
C12_Witness ==
    /\ Notified
    /\ notif.posts = 3 /\ ~notif.uniform /\ notif.last = 200
    /\ loc.notification_result.success

\* C39: the notifier sleeps the delays 1, 2 and 4 s in this order, one
\* before each retry, and when every attempt has failed it has slept each of
\* the three exactly once.
C39_AllDelaysSlept ==
    /\ notif.slept = SubSeq(retry_delays, 1, Len(notif.slept))
    /\ (Notified /\ ~loc.notification_result.success)
        => notif.slept = <<1, 2, 4>>

\* the availability poll returned False to _perform_evaluation
WaitTimedOut ==
    /\ CompletedOk("wait_for_pages_availability")
    /\ pc # "eval_wait_back"
    /\ ~loc.pages_available

\* C14: the poll of _perform_evaluation is made against the hosting URL with
\* a wait of 120 s and returns False only once that wait has elapsed; after
\* it returned False, evaluate_app is still called, against the same URL,
\* and when it returns, its report is what the run, ending in success,
\* returns.
C14_PollTimeoutNonFatal ==
    /\ poll.pc # "idle" =>
        /\ pc = "eval_wait_back"
        /\ poll.url = loc.pages_url
        /\ poll.max_wait_time = 120
    /\ (pc = "eval_wait_back" /\ PollReturned(FALSE)) =>
        /\ poll.url = loc.pages_url
        /\ poll.elapsed >= 120
    /\ evaluator.pc # "idle" =>
        /\ pc = "eval_run_back"
        /\ evaluator.url = loc.pages_url
        /\ evaluator.checks = request.checks
    /\ WaitTimedOut =>
        /\ pc \in {"eval_run", "eval_run_back", "persist", "finish", "done"}
        /\ pc # "eval_run" => Called("evaluate_app")
        /\ (pc = "eval_run_back" /\ EvReturned) =>
                IsReport(evaluator.ret.value, request.checks)
        /\ (CompletedOk("evaluate_app") /\ pc # "eval_run_back") =>
                IsReport(loc.evaluation_results, request.checks)
        /\ pc = "done" =>
            /\ outcome.status = "success"
            /\ outcome.pages_url = loc.pages_url
            /\ outcome.evaluation_results = loc.evaluation_results

\* the poll timed out and the run returned the report of the supplied check
\* and the automatic checks
C14_Witness ==
    /\ pc = "done"
    /\ WaitTimedOut
    /\ CompletedOk("evaluate_app")
    /\ outcome.status = "success"
    /\ request.checks = <<Expr_element>>
    /\ Len(outcome.evaluation_results) = 4
    /\ outcome.evaluation_results[1].check = Expr_element

\* every list of results the run holds: the evaluator's, the one
\* _perform_evaluation keeps and the one process_deployment returns
Reports ==
    {evaluator.results, loc.evaluation_results}
        \cup (IF evaluator.ret.kind = "value" THEN {evaluator.ret.value}
              ELSE {})
        \cup (IF pc = "done" /\ outcome.status = "success"
              THEN {outcome.evaluation_results} ELSE {})

\* C20: every result of every report (of a supplied check, whether its
\* handler returned or run_check caught an exception; of an automatic check;
\* page_load_error; evaluation_error) has score 1.0 when passed is true and
\* score 0.0 when passed is false.
C20_ScoreInvariant ==
    \A report \in Reports : \A i \in 1..Len(report) :
        /\ report[i].passed \in BOOLEAN
        /\ report[i].score = (IF report[i].passed THEN 1 ELSE 0)

\* a returned report in which the supplied check failed with a result and an
\* automatic check passed
C20_Witness ==
    /\ pc = "done" /\ outcome.status = "success"
    /\ Len(outcome.evaluation_results) = 4
    /\ ~outcome.evaluation_results[1].passed
    /\ "result" \in DOMAIN outcome.evaluation_results[1]
    /\ outcome.evaluation_results[1].score = 0
    /\ outcome.evaluation_results[2].passed
    /\ outcome.evaluation_results[2].score = 1

\* _perform_evaluation computed its overall score
Scored == loc.overall_score.kind = "value"

\* C23 as stated: the overall score is the fraction of the supplied checks
\* that passed, the automatic and synthetic results counting in neither
\* part, and is 0.0 for a request without checks.
C23_AsStated ==
    Scored =>
        LET supplied == supplied_results(loc.evaluation_results)
            s == loc.overall_score.value
        IN /\ Len(supplied) = Len(request.checks)
              \/ loc.evaluation_results = <<page_load_error>>
           /\ s.num * Len(supplied) = passed_checks(supplied) * s.den
           /\ Len(supplied) = 0 => s.num = 0

\* C23: the overall score counts every result evaluate_app returned: the
\* results of the supplied checks, the three automatic results and a
\* page_load_error result are all in the denominator, and those that passed
\* in the numerator. With the page loaded the score is at least 1/(N + 3),
\* auto_no_js_errors always passing, also for a request without checks; with
\* the page not loaded it is 0/1. No score is computed when the evaluation
\* raised (evaluation_error).
C23_EveryResultCounts ==
    /\ Scored <=> (pc \in {"finish", "done"} /\ CompletedOk("evaluate_app"))
    /\ Scored =>
        LET results == loc.evaluation_results
            N == Len(results)
            P == Len(SelectSeq(results, LAMBDA r : r.passed))
            s == loc.overall_score.value
        IN /\ N >= 1
           /\ s.num * N = P * s.den
           /\ s.den > 0
           /\ IF results = <<page_load_error>>
              THEN s = [num |-> 0, den |-> 1]
              ELSE /\ N = Len(request.checks) + 3
                   /\ P >= 1
                   /\ s.num >= 1

\* a request without checks whose three automatic checks passed: the score
\* is 1.0
C23_Witness ==
    /\ pc = "done" /\ outcome.status = "success"
    /\ request.checks = <<>>
    /\ Len(loc.evaluation_results) = 3
    /\ Scored
    /\ loc.overall_score.value = [num |-> 1, den |-> 1]

\* setup, the availability poll or evaluate_app raised in the evaluation
EvaluationRaised ==
    \/ RaisedIn("setup")
    \/ RaisedIn("wait_for_pages_availability")
    \/ RaisedIn("evaluate_app")

\* C40: when setup, the availability poll or evaluate_app raises inside
\* _perform_evaluation, the run ends with status 'success' and the
\* repository URL, the site URL and the commit it obtained; its
\* evaluation_results are one result, evaluation_error with passed False
\* and score 0.0; and no evaluation result was stored.
C40_EvaluationFailure ==
    (pc = "done" /\ EvaluationRaised) =>
        /\ outcome.status = "success"
        /\ outcome.repo_url = RepoUrl(Login, loc.repo_name)
        /\ outcome.pages_url = PagesUrl(Login, loc.repo_name)
        /\ outcome.commit_sha = loc.commit_sha /\ outcome.commit_sha # 0
        /\ Len(outcome.evaluation_results) = 1
        /\ outcome.evaluation_results[1].check = Str(<<"evaluation_error">>)
        /\ ~outcome.evaluation_results[1].passed
        /\ outcome.evaluation_results[1].score = 0
        /\ db.results = <<>>

\* evaluate_app raised after the poll had returned, and the run ended in
\* success with the one evaluation_error result
C40_Witness ==
    /\ pc = "done"
    /\ CompletedOk("wait_for_pages_availability")
    /\ RaisedIn("evaluate_app")
    /\ outcome.status = "success"
    /\ Len(outcome.evaluation_results) = 1
    /\ db.results = <<>>

(***************************************************************************)
(* Termination of process_deployment: every call made returns or raises,   *)
(* so a step that is possible is taken.                                    *)
(***************************************************************************)
SpecLive == Init /\ [][Next]_vars /\ WF_vars(Next)

\* C27: every run of process_deployment ends with an outcome whose status
\* is 'success' or 'error': the notifier's loop, the availability poll and
\* the loops over files and results all come to an end.
C27_Terminates ==
    <>(pc = "done" /\ outcome.status \in {"success", "error"})

\* a run that ended in success after three failed notifications and an
\* availability poll that timed out
C27_Witness ==
    /\ pc = "done" /\ outcome.status = "success"
    /\ notif.posts = 3 /\ ~loc.notification_result.success
    /\ WaitTimedOut

====
